---- MODULE Spec2Model ----
(***************************************************************************)
(* A model of the layout and interaction engine of the drag-and-drop       *)
(* canvas (src/src/drag_drop_canvas.rs): the widget list, the containment  *)
(* lists of Panel / Settings widgets, the grid placement, the pointer      *)
(* driven sessions of handle_drag_drop and the snapping of a dragged       *)
(* widget.                                                                 *)
(*                                                                         *)
(* Coordinates are integers in HALF PIXELS (Px(n) = 2n): every position    *)
(* the code computes from whole-pixel sizes and pointer positions is a     *)
(* multiple of 0.5 (centres are position + size / 2), so the f32           *)
(* arithmetic of the source is exact in this unit.  Widget values are kept *)
(* in 1/48 of a unit (ValueScale).  Indices into the widget list are       *)
(* 0-based as in the source: widget idx is widgets[idx + 1].               *)
(***************************************************************************)
EXTENDS Integers, Sequences, FiniteSets, TLC

VARIABLES
    widgets,             \* Vec<DraggableWidget>
    next_id,             \* usize
    canvas_rect,         \* Rect, NOTHING before the first render
    editing_widget,      \* Option<usize>: index, NoIdx when None
    show_edit_window,    \* bool
    selected_panel,      \* Option<usize>: id, NoIdx when None
    pending_widget,      \* Option<WidgetType>: <<>> or <<widget_type>>
    dragging_widget,     \* Option<usize>: index
    drag_offset,         \* Vec2
    interacting_widget,  \* Option<usize>: index
    last_mouse_pos,      \* Option<Pos2>: <<>> or <<pos>>
    resizing_widget,     \* Option<usize>: index
    resize_start_size,   \* Vec2
    palette_dragging,    \* Option<WidgetType>
    palette_drag_pos,    \* Option<Pos2>
    alignment_guides,    \* Vec<AlignmentGuide>
    drag_hover_panel,    \* Option<usize>: id
    needs_repositioning, \* bool
    primary_down,        \* the pointer's primary button, as egui reports it
    press_origin,        \* where it went down (egui's press_origin), <<>> when up
    edge_snap            \* the last call of calculate_edge_snap and what it
                         \* returned, <<>> before the first call

vars == <<widgets, next_id, canvas_rect, editing_widget, show_edit_window,
          selected_panel, pending_widget, dragging_widget, drag_offset,
          interacting_widget, last_mouse_pos, resizing_widget,
          resize_start_size, palette_dragging, palette_drag_pos,
          alignment_guides, drag_hover_panel, needs_repositioning,
          primary_down, press_origin, edge_snap>>

----------------------------------------------------------------------------
(* Bounds of the model.                                                    *)

\* Widgets ever created in a run (next_id is capped at this value).
MaxIds == 2

----------------------------------------------------------------------------
(* Units and options.                                                      *)

Px(n) == 2 * n
Half(v) == v \div 2
ValueScale == 48
NoIdx == -1
Min2(a, b) == IF a < b THEN a ELSE b
Max2(a, b) == IF a > b THEN a ELSE b
Abs(a) == IF a < 0 THEN -a ELSE a
\* f32::clamp(lo, hi), called in the source with lo <= hi only
Clamp(v, lo, hi) == Max2(lo, Min2(v, hi))

Pos(x, y) == [x |-> x, y |-> y]
Vec(x, y) == [x |-> x, y |-> y]
VecZero == Vec(0, 0)

\* egui::Rect: from_min_size, contains (closed), intersects (closed), expand
RectMinMax(x0, y0, x1, y1) == [nothing |-> FALSE, minx |-> x0, miny |-> y0, maxx |-> x1, maxy |-> y1]
RectFromMinSize(p, s) == RectMinMax(p.x, p.y, p.x + s.x, p.y + s.y)
RectNOTHING == [nothing |-> TRUE, minx |-> 0, miny |-> 0, maxx |-> 0, maxy |-> 0]
RectContains(r, p) == r.minx <= p.x /\ p.x <= r.maxx /\ r.miny <= p.y /\ p.y <= r.maxy
RectIntersects(a, b) ==
    a.minx <= b.maxx /\ b.minx <= a.maxx /\ a.miny <= b.maxy /\ b.miny <= a.maxy
RectExpand(r, d) == RectMinMax(r.minx - d, r.miny - d, r.maxx + d, r.maxy + d)
RectCenter(r) == Pos(Half(r.minx + r.maxx), Half(r.miny + r.maxy))
RectContainsRect(a, b) ==
    a.minx <= b.minx /\ b.maxx <= a.maxx /\ a.miny <= b.miny /\ b.maxy <= a.maxy

----------------------------------------------------------------------------
(* crate::canvas::constants is not among the source files: these layout    *)
(* constants are modelled from the specification's description (a fixed    *)
(* canvas margin, a grid spacing, the panel header height and margin).     *)

PANEL_MARGIN == Px(10)
PANEL_TITLE_HEIGHT == Px(40)
CANVAS_MARGIN == Px(20)
GRID_SPACING == Px(120)
WIDGET_SPACING_IN_PANEL == Px(70)

----------------------------------------------------------------------------
(* Widget types and sizes.                                                 *)

IsContainerKind(k) == k \in {"Panel", "Settings"}

\* A WidgetType value.  Fields a variant does not carry keep a default.
\*   on        : on / active / online
\*   collapsed : Panel.collapsed / Settings.minimized
\*   icon      : Panel.minimize_to_settings_icon
\*   psize     : PushButton.size / IconButton.size / TextLabel.size (pixels)
WidgetType(k, on, value, width, height, collapsed, icon, psize) ==
    [on |-> on, value |-> value, width |-> width, height |-> height,
     collapsed |-> collapsed, icon |-> icon, psize |-> psize,
     kind |-> k, min |-> 0, max |-> 100 * ValueScale, contained |-> <<>>]

\* The widget types the palette creates (show_widget_palette).
PaletteType(k) ==
    CASE k = "Knob"             -> WidgetType(k, FALSE, 50 * ValueScale, 0, 0, FALSE, FALSE, 0)
      [] k = "ToggleSwitch"     -> WidgetType(k, FALSE, 0, 0, 0, FALSE, FALSE, 0)
      [] k = "PushButton"       -> WidgetType(k, FALSE, 0, 0, 0, FALSE, FALSE, 48)
      [] k = "VuMeter"          -> WidgetType(k, FALSE, 75 * ValueScale, 0, 0, FALSE, FALSE, 0)
      [] k = "HorizontalSlider" -> WidgetType(k, FALSE, 60 * ValueScale, 0, 0, FALSE, FALSE, 0)
      [] k = "VerticalSlider"   -> WidgetType(k, FALSE, 75 * ValueScale, 0, 0, FALSE, FALSE, 0)
      [] k = "LevelIndicator"   -> WidgetType(k, FALSE, 0, 0, 0, FALSE, FALSE, 0)
      [] k = "TextLabel"        -> WidgetType(k, FALSE, 0, 0, 0, FALSE, FALSE, 16)
      [] k = "Panel"            -> WidgetType(k, FALSE, 0, Px(200), Px(150), FALSE, FALSE, 0)
      [] k = "StatusBar"        -> WidgetType(k, TRUE, 0, 0, 0, FALSE, FALSE, 0)
      [] k = "Settings"         -> WidgetType(k, FALSE, 0, 0, 0, FALSE, FALSE, 0)
      [] k = "IconButton"       -> WidgetType(k, FALSE, 0, 0, 0, FALSE, FALSE, 48)

\* A Panel whose collapse shrinks it to the settings icon (a WidgetType a
\* caller of the public add_widget can pass).
IconPanelType == WidgetType("Panel", FALSE, 0, Px(200), Px(150), FALSE, TRUE, 0)

\* DraggableWidget::calculate_size
calculate_size(wt) ==
    CASE wt.kind = "Knob"             -> Vec(Px(104), Px(124))
      [] wt.kind = "ToggleSwitch"     -> Vec(Px(68), Px(49))
      [] wt.kind = "PushButton"       -> Vec(Px(wt.psize + 10), Px(wt.psize + 30))
      [] wt.kind = "VuMeter"          -> Vec(Px(26), Px(158))
      [] wt.kind = "HorizontalSlider" -> Vec(Px(176), Px(28))
      [] wt.kind = "VerticalSlider"   -> Vec(Px(28), Px(146))
      [] wt.kind = "LevelIndicator"   -> Vec(Px(120), Px(40))
      [] wt.kind = "TextLabel"        -> Vec(Px(wt.psize * 8), Px((wt.psize * 3) \div 2))
      [] wt.kind = "Panel"            ->
            IF wt.collapsed
            THEN IF wt.icon THEN Vec(Px(40), Px(40)) ELSE Vec(wt.width, Px(40))
            ELSE Vec(wt.width, wt.height)
      [] wt.kind = "StatusBar"        -> Vec(Px(400), Px(60))
      [] wt.kind = "IconButton"       -> Vec(Px(wt.psize + 10), Px(wt.psize + 30))
      [] wt.kind = "Settings"         ->
            IF wt.collapsed THEN Vec(Px(40), Px(40)) ELSE Vec(Px(250), Px(300))

\* DraggableWidget::new
NewWidget(id, wt, position) ==
    [wt |-> wt, id |-> id, position |-> position, size |-> calculate_size(wt)]

\* DraggableWidget::get_rect
get_rect(w) == RectFromMinSize(w.position, w.size)

Indices(ws) == 0 .. (Len(ws) - 1)
At(ws, idx) == ws[idx + 1]
HasIdx(ws, idx) == idx >= 0 /\ idx < Len(ws)
WidgetIds(ws) == {ws[i].id : i \in DOMAIN ws}
SeqContains(s, e) == \E i \in DOMAIN s : s[i] = e

----------------------------------------------------------------------------
(* crate::canvas::panels::PanelManager is not among the source files: its  *)
(* operations are modelled from the Containment Manager contract of the    *)
(* specification (section 4.1).                                            *)

\* isAcceptingWidgets: a Panel / Settings that is not collapsed / minimized
is_panel_accepting_widgets(w) == IsContainerKind(w.wt.kind) /\ ~w.wt.collapsed

\* addChild: appends the id; a no-op when the container does not accept widgets
add_widget_to_panel(ws, panel_idx, widget_id) ==
    IF HasIdx(ws, panel_idx) /\ is_panel_accepting_widgets(At(ws, panel_idx))
    THEN [ws EXCEPT ![panel_idx + 1].wt.contained = Append(@, widget_id)]
    ELSE ws

\* removeFromAllContainers: removes the id from every container's list
remove_widget_from_containers(ws, widget_id) ==
    [i \in DOMAIN ws |->
        [ws[i] EXCEPT !.wt.contained = SelectSeq(@, LAMBDA e : e # widget_id)]]

\* containerOf, by id: the id of the container that lists widget_id
find_widget_container_panel_id(ws, widget_id) ==
    LET holders == {i \in DOMAIN ws : IsContainerKind(ws[i].wt.kind)
                                      /\ SeqContains(ws[i].wt.contained, widget_id)}
    IN IF holders = {} THEN NoIdx
       ELSE ws[CHOOSE i \in holders : \A j \in holders : i <= j].id

\* containerOf, by index: the index of the container that lists widgets[idx]
find_widget_container_panel(ws, idx) ==
    IF ~HasIdx(ws, idx) THEN NoIdx
    ELSE LET holders == {i \in DOMAIN ws : IsContainerKind(ws[i].wt.kind)
                              /\ SeqContains(ws[i].wt.contained, At(ws, idx).id)}
         IN IF holders = {} THEN NoIdx
            ELSE (CHOOSE i \in holders : \A j \in holders : i <= j) - 1

\* the accepting container under the pointer, the one rendered last on top
find_panel_under_position(ws, pos) ==
    LET under == {i \in DOMAIN ws : is_panel_accepting_widgets(ws[i])
                                    /\ RectContains(get_rect(ws[i]), pos)}
    IN IF under = {} THEN NoIdx
       ELSE ws[CHOOSE i \in under : \A j \in under : i >= j].id

----------------------------------------------------------------------------
(* Containment queries of DragDropCanvas.                                  *)

is_widget_contained(ws, widget_id) ==
    \E i \in DOMAIN ws : IsContainerKind(ws[i].wt.kind)
                         /\ SeqContains(ws[i].wt.contained, widget_id)

\* get_canvas_widgets: the indices of the widgets in no container, in order
get_canvas_widgets(ws) ==
    LET keep == SelectSeq([i \in DOMAIN ws |-> i],
                          LAMBDA i : ~is_widget_contained(ws, ws[i].id))
    IN [k \in DOMAIN keep |-> keep[k] - 1]

count_canvas_widgets(ws) ==
    Cardinality({i \in DOMAIN ws : ~is_widget_contained(ws, ws[i].id)})

\* is_widget_in_minimized_panel_recursive: the widget is listed by a collapsed
\* container, or its container is itself inside one; visited stops a cycle
RECURSIVE is_widget_in_minimized_panel_recursive(_, _, _)
is_widget_in_minimized_panel_recursive(ws, widget_id, visited) ==
    IF widget_id \in visited THEN FALSE
    ELSE IF \E i \in DOMAIN ws : /\ IsContainerKind(ws[i].wt.kind)
                                 /\ ws[i].wt.collapsed
                                 /\ SeqContains(ws[i].wt.contained, widget_id)
    THEN TRUE
    ELSE LET container_panel_idx == find_widget_container_panel_id(ws, widget_id)
         IN IF container_panel_idx # NoIdx /\ container_panel_idx \in WidgetIds(ws)
            THEN is_widget_in_minimized_panel_recursive(ws, container_panel_idx,
                                                        visited \cup {widget_id})
            ELSE FALSE

\* a variant of is_widget_in_minimized_panel that looks at the containers
\* listing the widget itself and no further
InCollapsedContainerOnly(ws, widget_id) ==
    \E i \in DOMAIN ws : /\ IsContainerKind(ws[i].wt.kind) /\ ws[i].wt.collapsed
                         /\ SeqContains(ws[i].wt.contained, widget_id)

is_widget_in_minimized_panel(ws, widget_id) ==
    is_widget_in_minimized_panel_recursive(ws, widget_id, {})

\* render, lines 511-513: which widgets are drawn in the frame
widgets_to_render(ws) ==
    [i \in DOMAIN ws |-> ~is_widget_in_minimized_panel(ws, ws[i].id)]

\* the position of the first widget with this id (iter().position / find)
FirstWithId(ws, id) ==
    LET hits == {i \in DOMAIN ws : ws[i].id = id}
    IN IF hits = {} THEN NoIdx ELSE (CHOOSE i \in hits : \A j \in hits : i <= j) - 1

----------------------------------------------------------------------------
(* Placement.                                                              *)

\* the viewport assumed while canvas_rect is still Rect::NOTHING
FallbackCanvas == RectMinMax(0, 0, Px(800), Px(600))

calculate_grid_position(crect, grid_index, wt) ==
    LET widget_size    == calculate_size(wt)
        canvas         == IF crect.nothing THEN FallbackCanvas ELSE crect
        usable_start_x == canvas.minx + CANVAS_MARGIN
        usable_start_y == canvas.miny + CANVAS_MARGIN
        usable_end_x   == Max2(canvas.maxx - CANVAS_MARGIN, usable_start_x + Px(100))
        usable_end_y   == Max2(canvas.maxy - CANVAS_MARGIN, usable_start_y + Px(100))
        available_width == usable_end_x - usable_start_x
        widgets_per_row == Max2(available_width \div GRID_SPACING, 1)
        row == grid_index \div widgets_per_row
        col == grid_index % widgets_per_row
        x == usable_start_x + col * GRID_SPACING
        y == usable_start_y + row * GRID_SPACING
        max_x == Max2(usable_end_x - widget_size.x, usable_start_x)
        max_y == Max2(usable_end_y - widget_size.y, usable_start_y)
    IN Pos(Min2(x, max_x), Min2(y, max_y))

\* `as i32` of a coordinate: truncation of the pixel value toward zero
TruncPx(u) == IF u >= 0 THEN u \div 2 ELSE -((-u) \div 2)

\* some widget listed in ids, expanded by the padding, intersects the rectangle
OverlapsListed(ws, ids, rect) ==
    \E k \in DOMAIN ids :
        LET i == FirstWithId(ws, ids[k])
        IN i # NoIdx /\ RectIntersects(RectExpand(get_rect(At(ws, i)), Px(1)), rect)

find_first_available_spot(ws, widget_size, ids, bounds) ==
    LET start_x == bounds.minx + PANEL_MARGIN
        start_y == bounds.miny + PANEL_TITLE_HEIGHT
        y0 == TruncPx(start_y)
        y1 == TruncPx(bounds.maxy - PANEL_MARGIN - widget_size.y)
        x0 == TruncPx(start_x)
        x1 == TruncPx(bounds.maxx - PANEL_MARGIN - widget_size.x)
        free == {c \in {<<y, x>> : y \in {v \in y0 .. (y1 - 1) : (v - y0) % 20 = 0},
                                   x \in {v \in x0 .. (x1 - 1) : (v - x0) % 20 = 0}} :
                    ~OverlapsListed(ws, ids,
                        RectFromMinSize(Pos(Px(c[2]), Px(c[1])), widget_size))}
    IN IF free = {} THEN Pos(start_x, start_y)
       ELSE LET c == CHOOSE c \in free : \A d \in free :
                        c[1] < d[1] \/ (c[1] = d[1] /\ c[2] <= d[2])
            IN Pos(Px(c[2]), Px(c[1]))

find_non_overlapping_position(ws, preferred_pos, widget_size, ids, bounds) ==
    LET test_rect == RectFromMinSize(preferred_pos, widget_size)
        hits == {k \in DOMAIN ids :
                    LET i == FirstWithId(ws, ids[k])
                    IN i # NoIdx /\ RectIntersects(
                           RectExpand(get_rect(At(ws, i)), Px(1)), test_rect)}
    IN IF hits = {} THEN preferred_pos
       ELSE LET k == CHOOSE k \in hits : \A j \in hits : k <= j
                existing_rect == RectExpand(get_rect(At(ws, FirstWithId(ws, ids[k]))), Px(1))
                right_x == existing_rect.maxx + Px(1)
                below_y == existing_rect.maxy + Px(1)
            IN IF right_x + widget_size.x > bounds.maxx - PANEL_MARGIN
               THEN IF below_y + widget_size.y > bounds.maxy - PANEL_MARGIN
                    THEN find_first_available_spot(ws, widget_size, ids, bounds)
                    ELSE Pos(preferred_pos.x, below_y)
               ELSE Pos(right_x, preferred_pos.y)

\* a variant of add_widget that puts the new widget first in the list
add_widget_front(s, wt) ==
    [s EXCEPT
        !.needs_repositioning = @ \/ s.canvas_rect.nothing,
        !.widgets = <<NewWidget(s.next_id, wt,
                        IF s.canvas_rect.nothing THEN Pos(Px(50), Px(50))
                        ELSE calculate_grid_position(s.canvas_rect,
                                                     count_canvas_widgets(s.widgets), wt))>>
                    \o @,
        !.next_id = @ + 1]

\* The canvas state as one record, threaded through the operations below.
add_widget(s, wt) ==
    IF ~s.canvas_rect.nothing
    THEN [s EXCEPT
            !.widgets = Append(@, NewWidget(s.next_id, wt,
                calculate_grid_position(s.canvas_rect, count_canvas_widgets(s.widgets), wt))),
            !.next_id = @ + 1]
    ELSE [s EXCEPT
            !.needs_repositioning = TRUE,
            !.widgets = Append(@, NewWidget(s.next_id, wt, Pos(Px(50), Px(50)))),
            !.next_id = @ + 1]

\* a variant of PushIntoPanel that forgets to advance next_id
PushIntoPanelSameId(s, wt, panel_idx, final_pos) ==
    [s EXCEPT !.widgets = add_widget_to_panel(
                  Append(s.widgets, NewWidget(s.next_id, wt, final_pos)), panel_idx, s.next_id)]

\* a variant of PushIntoPanel that lists the container in itself
PushIntoPanelSelf(s, wt, panel_idx, final_pos) ==
    [s EXCEPT !.widgets = add_widget_to_panel(
                  Append(s.widgets, NewWidget(s.next_id, wt, final_pos)),
                  panel_idx, At(s.widgets, panel_idx).id),
              !.next_id = @ + 1]

\* lines 362-369: the new widget is pushed, next_id advances, and the id is
\* added to the panel's contained_widgets
PushIntoPanel(s, wt, panel_idx, final_pos) ==
    [s EXCEPT !.widgets = add_widget_to_panel(
                  Append(s.widgets, NewWidget(s.next_id, wt, final_pos)), panel_idx, s.next_id),
              !.next_id = @ + 1]

\* a variant of FallbackToCanvas that keeps the selection
FallbackKeepsSelection(s, wt) == add_widget(s, wt)

\* lines 371-378 and 382: the selection is cleared and the widget goes to the
\* canvas
FallbackToCanvas(s, wt) == add_widget([s EXCEPT !.selected_panel = NoIdx], wt)

add_widget_to_selected_panel(s, wt, click_pos) ==
    IF s.selected_panel = NoIdx THEN add_widget(s, wt)
    ELSE LET panel_idx == FirstWithId(s.widgets, s.selected_panel)
         IN IF panel_idx = NoIdx
            THEN FallbackToCanvas(s, wt)
            ELSE IF ~is_panel_accepting_widgets(At(s.widgets, panel_idx))
            THEN FallbackToCanvas(s, wt)
            ELSE LET panel == At(s.widgets, panel_idx)
                     panel_rect == get_rect(panel)
                     widget_size == calculate_size(wt)
                     desired_x == Max2(click_pos.x, panel_rect.minx + PANEL_MARGIN)
                     desired_y == Max2(click_pos.y, panel_rect.miny + PANEL_TITLE_HEIGHT)
                     max_x == panel_rect.maxx - PANEL_MARGIN - widget_size.x
                     max_y == panel_rect.maxy - PANEL_MARGIN - widget_size.y
                     first_pos == Pos(Min2(desired_x, max_x), Min2(desired_y, max_y))
                     final_pos == find_non_overlapping_position(s.widgets, first_pos,
                                      widget_size, panel.wt.contained, panel_rect)
                 IN PushIntoPanel(s, wt, panel_idx, final_pos)

reposition_step(crect, ws, order, k) ==
    [ws EXCEPT ![order[k] + 1].position =
        calculate_grid_position(crect, k - 1, ws[order[k] + 1].wt)]

RECURSIVE reposition_from(_, _, _, _)
reposition_from(crect, ws, order, k) ==
    IF k > Len(order) THEN ws
    ELSE reposition_from(crect, reposition_step(crect, ws, order, k), order, k + 1)

\* a variant of reposition_canvas_widgets that lays the widgets out in the
\* viewport assumed before the first frame
reposition_canvas_widgets_fallback(s) ==
    [s EXCEPT !.widgets = reposition_from(FallbackCanvas, @, get_canvas_widgets(@), 1)]

\* reposition_canvas_widgets: the canvas-level widgets, in list order, get the
\* grid positions 0, 1, 2, ...
reposition_canvas_widgets(s) ==
    [s EXCEPT !.widgets = reposition_from(s.canvas_rect, @, get_canvas_widgets(@), 1)]

----------------------------------------------------------------------------
(* Click behaviour and knob turning.                                       *)

\* a variant of PanelToggleSize that ignores minimize_to_settings_icon
PanelToggleSizeNoIcon(wt) ==
    IF wt.collapsed THEN Vec(wt.width, Px(40)) ELSE Vec(wt.width, wt.height)

\* the size a Panel takes when its collapsed flag has just been inverted
\* (first branch of handle_widget_interaction)
PanelToggleSize(wt) ==
    IF wt.collapsed
    THEN IF wt.icon THEN Vec(Px(40), Px(40)) ELSE Vec(wt.width, Px(40))
    ELSE Vec(wt.width, wt.height)

\* value of a slider from the pointer offset u along a track of 96 pixels
TrackValue(wt, u) == ((Clamp(u, 0, Px(96)) * (wt.max - wt.min)) \div Px(96)) + wt.min

handle_widget_interaction(ws, widget_idx, mouse_pos) ==
    IF ~HasIdx(ws, widget_idx) THEN ws
    ELSE
    LET w == At(ws, widget_idx)
        rect == get_rect(w)
        i == widget_idx + 1
    IN CASE w.wt.kind = "Panel" ->
              LET toggled == [w.wt EXCEPT !.collapsed = ~@]
              IN [ws EXCEPT ![i] = [w EXCEPT !.wt = toggled, !.size = PanelToggleSize(toggled)]]
         [] w.wt.kind \in {"ToggleSwitch", "PushButton", "IconButton", "StatusBar"} ->
              [ws EXCEPT ![i].wt.on = ~@]
         [] w.wt.kind = "HorizontalSlider" ->
              LET c == RectCenter(rect)
                  slider_rect == RectMinMax(c.x + Px(10) - Px(48), c.y - Px(4),
                                            c.x + Px(10) + Px(48), c.y + Px(4))
              IN IF RectContains(slider_rect, mouse_pos)
                 THEN [ws EXCEPT ![i].wt.value = TrackValue(w.wt, mouse_pos.x - slider_rect.minx)]
                 ELSE ws
         [] w.wt.kind = "VerticalSlider" ->
              LET c == RectCenter(rect)
                  slider_rect == RectMinMax(c.x - Px(4), c.y - Px(10) - Px(48),
                                            c.x + Px(4), c.y - Px(10) + Px(48))
              IN IF RectContains(slider_rect, mouse_pos)
                 THEN [ws EXCEPT ![i].wt.value =
                          (w.wt.max - w.wt.min) + 2 * w.wt.min
                              - TrackValue(w.wt, mouse_pos.y - slider_rect.miny)]
                 ELSE ws
         \* Knob: no call site passes a Knob (the press handler turns knobs through
         \* handle_knob_interaction); the other kinds have no direct interaction.
         [] OTHER -> ws

\* a variant of handle_knob_interaction that does not clamp the value
KnobInteractionUnclamped(ws, widget_idx, delta_y) ==
    IF HasIdx(ws, widget_idx) /\ At(ws, widget_idx).wt.kind = "Knob"
    THEN LET wt == At(ws, widget_idx).wt
         IN [ws EXCEPT ![widget_idx + 1].wt.value =
                @ + (delta_y * (wt.max - wt.min)) \div 400]
    ELSE ws

handle_knob_interaction(ws, widget_idx, delta_y) ==
    IF HasIdx(ws, widget_idx) /\ At(ws, widget_idx).wt.kind = "Knob"
    THEN LET wt == At(ws, widget_idx).wt
             \* (delta_y px * 0.5 / 100) * range, with delta_y in half pixels
             delta_value == (delta_y * (wt.max - wt.min)) \div 400
         IN [ws EXCEPT ![widget_idx + 1].wt.value = Clamp(@ + delta_value, wt.min, wt.max)]
    ELSE ws

----------------------------------------------------------------------------
(* Alignment guides and snapping.                                          *)

SnapThreshold == Px(8)

Guide(x0, y0, x1, y1, t) == [start |-> Pos(x0, y0), end |-> Pos(x1, y1), guide_type |-> t]

\* the guides one other widget contributes, in the order the source pushes them
WidgetGuides(o, position, size) ==
    LET ocx == o.position.x + Half(o.size.x)
        ocy == o.position.y + Half(o.size.y)
        wcx == position.x + Half(size.x)
        wcy == position.y + Half(size.y)
        top == Min2(o.position.y, position.y) - Px(20)
        bot == Max2(o.position.y + o.size.y, position.y + size.y) + Px(20)
        lef == Min2(o.position.x, position.x) - Px(20)
        rig == Max2(o.position.x + o.size.x, position.x + size.x) + Px(20)
    IN  (IF Abs(wcx - ocx) < SnapThreshold
         THEN <<Guide(ocx, top, ocx, bot, "WidgetAlignHorizontal")>> ELSE <<>>)
     \o (IF Abs(wcy - ocy) < SnapThreshold
         THEN <<Guide(lef, ocy, rig, ocy, "WidgetAlignVertical")>> ELSE <<>>)
     \o (IF Abs(position.x - o.position.x) < SnapThreshold
         THEN <<Guide(o.position.x, top, o.position.x, bot, "WidgetAlignHorizontal")>> ELSE <<>>)
     \o (IF Abs((position.x + size.x) - (o.position.x + o.size.x)) < SnapThreshold
         THEN <<Guide(o.position.x + o.size.x, top, o.position.x + o.size.x, bot,
                      "WidgetAlignHorizontal")>> ELSE <<>>)
     \o (IF Abs(position.y - o.position.y) < SnapThreshold
         THEN <<Guide(lef, o.position.y, rig, o.position.y, "WidgetAlignVertical")>> ELSE <<>>)
     \o (IF Abs((position.y + size.y) - (o.position.y + o.size.y)) < SnapThreshold
         THEN <<Guide(lef, o.position.y + o.size.y, rig, o.position.y + o.size.y,
                      "WidgetAlignVertical")>> ELSE <<>>)

RECURSIVE OtherGuides(_, _, _, _, _)
OtherGuides(ws, dragging_idx, position, size, i) ==
    IF i > Len(ws) THEN <<>>
    ELSE (IF i - 1 = dragging_idx THEN <<>> ELSE WidgetGuides(ws[i], position, size))
         \o OtherGuides(ws, dragging_idx, position, size, i + 1)

calculate_alignment_guides(ws, crect, dragging_idx, position, size) ==
    LET c == RectCenter(crect)
        wcx == position.x + Half(size.x)
        wcy == position.y + Half(size.y)
    IN  (IF Abs(wcx - c.x) < SnapThreshold
         THEN <<Guide(c.x, crect.miny, c.x, crect.maxy, "CenterHorizontal")>> ELSE <<>>)
     \o (IF Abs(wcy - c.y) < SnapThreshold
         THEN <<Guide(crect.minx, c.y, crect.maxx, c.y, "CenterVertical")>> ELSE <<>>)
     \o OtherGuides(ws, dragging_idx, position, size, 1)

\* the overrides one other widget applies to final_pos, in source order
SnapToWidget(o, position, size, final_pos) ==
    LET ocx == o.position.x + Half(o.size.x)
        ocy == o.position.y + Half(o.size.y)
        x1 == IF Abs(position.x + Half(size.x) - ocx) < SnapThreshold
              THEN ocx - Half(size.x) ELSE final_pos.x
        y1 == IF Abs(position.y + Half(size.y) - ocy) < SnapThreshold
              THEN ocy - Half(size.y) ELSE final_pos.y
        x2 == IF Abs(position.x - o.position.x) < SnapThreshold
              THEN o.position.x ELSE x1
        x3 == IF Abs(position.x + size.x - (o.position.x + o.size.x)) < SnapThreshold
              THEN o.position.x + o.size.x - size.x ELSE x2
        y2 == IF Abs(position.y - o.position.y) < SnapThreshold
              THEN o.position.y ELSE y1
        y3 == IF Abs(position.y + size.y - (o.position.y + o.size.y)) < SnapThreshold
              THEN o.position.y + o.size.y - size.y ELSE y2
    IN Pos(x3, y3)

RECURSIVE SnapFrom(_, _, _, _, _, _)
SnapFrom(ws, dragging_idx, position, size, final_pos, i) ==
    IF i > Len(ws) THEN final_pos
    ELSE SnapFrom(ws, dragging_idx, position, size,
                  IF i - 1 = dragging_idx THEN final_pos
                  ELSE SnapToWidget(ws[i], position, size, final_pos),
                  i + 1)

apply_snapping(ws, crect, dragging_idx, position, size) ==
    LET c == RectCenter(crect)
        x0 == IF Abs(position.x + Half(size.x) - c.x) < SnapThreshold
              THEN c.x - Half(size.x) ELSE position.x
        y0 == IF Abs(position.y + Half(size.y) - c.y) < SnapThreshold
              THEN c.y - Half(size.y) ELSE position.y
    IN SnapFrom(ws, dragging_idx, position, size, Pos(x0, y0), 1)

----------------------------------------------------------------------------
(* handle_drag_drop, one pointer tick.  The input of a tick is             *)
(*   pos      : <<>> or <<Pos2>>   (pointer.interact_pos)                  *)
(*   pressed  : primary_pressed    released : primary_released             *)
(*   held     : primary_down       right    : secondary_pressed            *)
(* Each stage below is one block of the function, in source order; a stage *)
(* that can `return` yields [s |-> state, ret |-> returned].               *)

PaletteWidth == Px(220)

\* a variant of PanelAt that takes the lowest such container in the list
PanelAtBottom(ws, pos) ==
    LET hit == {i \in DOMAIN ws : RectContains(get_rect(ws[i]), pos)
                                  /\ IsContainerKind(ws[i].wt.kind)
                                  /\ ~ws[i].wt.collapsed}
    IN IF hit = {} THEN NoIdx ELSE ws[CHOOSE i \in hit : \A j \in hit : i <= j].id

\* the topmost expanded Panel / Settings whose rectangle contains pos
PanelAt(ws, pos) ==
    LET hit == {i \in DOMAIN ws : RectContains(get_rect(ws[i]), pos)
                                  /\ IsContainerKind(ws[i].wt.kind)
                                  /\ ~ws[i].wt.collapsed}
    IN IF hit = {} THEN NoIdx ELSE ws[CHOOSE i \in hit : \A j \in hit : i >= j].id

\* a variant of TopmostAt that takes the widget lowest in the list
BottommostAt(ws, pos) ==
    LET hit == {i \in DOMAIN ws : RectContains(get_rect(ws[i]), pos)}
    IN IF hit = {} THEN NoIdx ELSE (CHOOSE i \in hit : \A j \in hit : i <= j) - 1

\* the topmost widget whose rectangle contains pos (iter().enumerate().rev())
TopmostAt(ws, pos) ==
    LET hit == {i \in DOMAIN ws : RectContains(get_rect(ws[i]), pos)}
    IN IF hit = {} THEN NoIdx ELSE (CHOOSE i \in hit : \A j \in hit : i >= j) - 1

\* the first widget whose rectangle contains pos (for i in 0..len)
FirstAt(ws, pos) ==
    LET hit == {i \in DOMAIN ws : RectContains(get_rect(ws[i]), pos)}
    IN IF hit = {} THEN NoIdx ELSE (CHOOSE i \in hit : \A j \in hit : i <= j) - 1

\* placing a widget type at a canvas point: in the panel under the point, else
\* in the selected panel when the point is inside it, else on the canvas
PlaceAt(s, wt, pos) ==
    LET panel_id == PanelAt(s.widgets, pos)
    IN IF panel_id # NoIdx
       THEN add_widget_to_selected_panel([s EXCEPT !.selected_panel = panel_id], wt, pos)
       ELSE IF s.selected_panel # NoIdx
       THEN LET i == FirstWithId(s.widgets, s.selected_panel)
            IN IF i # NoIdx /\ RectContains(get_rect(At(s.widgets, i)), pos)
               THEN add_widget_to_selected_panel(s, wt, pos)
               ELSE add_widget(s, wt)
       ELSE add_widget(s, wt)

\* a variant of ClickStage that does not return after placing the widget
ClickStageFallsThrough(s, in) ==
    IF in.pressed /\ in.pos # <<>> /\ in.pos[1].x > PaletteWidth
    THEN IF s.pending_widget # <<>>
         THEN [s |-> PlaceAt([s EXCEPT !.pending_widget = <<>>],
                             s.pending_widget[1], in.pos[1]),
               ret |-> FALSE]
         ELSE [s |-> [s EXCEPT !.selected_panel = PanelAt(s.widgets, in.pos[1])],
               ret |-> FALSE]
    ELSE [s |-> s, ret |-> FALSE]

\* lines 626-691: placement of the pending widget, panel selection
ClickStage(s, in) ==
    IF in.pressed /\ in.pos # <<>> /\ in.pos[1].x > PaletteWidth
    THEN IF s.pending_widget # <<>>
         THEN [s |-> PlaceAt([s EXCEPT !.pending_widget = <<>>],
                             s.pending_widget[1], in.pos[1]),
               ret |-> TRUE]
         ELSE [s |-> [s EXCEPT !.selected_panel = PanelAt(s.widgets, in.pos[1])],
               ret |-> FALSE]
    ELSE [s |-> s, ret |-> FALSE]

\* a variant of PaletteStage that also drops over the palette
PaletteStageAnywhere(s, in) ==
    IF in.pos = <<>> THEN s
    ELSE IF ~in.released THEN [s EXCEPT !.palette_drag_pos = in.pos]
    ELSE [PlaceAt(s, s.palette_dragging[1], in.pos[1])
             EXCEPT !.palette_dragging = <<>>, !.palette_drag_pos = <<>>]

\* lines 694-754: the palette drag, which always returns
PaletteStage(s, in) ==
    IF in.pos = <<>> THEN s
    ELSE LET tracked == [s EXCEPT !.palette_drag_pos = in.pos]
         IN IF ~in.released THEN tracked
            ELSE LET dropped == IF in.pos[1].x > PaletteWidth
                                THEN PlaceAt(tracked, s.palette_dragging[1], in.pos[1])
                                ELSE tracked
                 IN [dropped EXCEPT !.palette_dragging = <<>>, !.palette_drag_pos = <<>>]

\* lines 757-767: a secondary press opens the editor on the topmost widget
RightClickStage(s, in) ==
    IF in.right /\ in.pos # <<>> /\ TopmostAt(s.widgets, in.pos[1]) # NoIdx
    THEN [s EXCEPT !.editing_widget = TopmostAt(s.widgets, in.pos[1]),
                   !.show_edit_window = TRUE]
    ELSE s

\* squared length of a vector, for the distance tests
LengthSq(dx, dy) == dx * dx + dy * dy

\* lines 770-840: a primary press starts a session on the topmost widget
PressStage(s, in) ==
    IF in.pressed /\ s.dragging_widget = NoIdx /\ s.interacting_widget = NoIdx
       /\ s.resizing_widget = NoIdx /\ in.pos # <<>>
       /\ TopmostAt(s.widgets, in.pos[1]) # NoIdx
    THEN LET pos == in.pos[1]
             idx == TopmostAt(s.widgets, pos)
             w == At(s.widgets, idx)
             rect == get_rect(w)
             handle_rect == RectMinMax(rect.maxx - Px(12), rect.maxy - Px(12),
                                       rect.maxx, rect.maxy)
             title_area == RectFromMinSize(w.position, Vec(w.size.x, Px(40)))
             drag == [s |-> [s EXCEPT !.dragging_widget = idx,
                                      !.drag_offset = Vec(pos.x - w.position.x,
                                                          pos.y - w.position.y)],
                      ret |-> FALSE]
         IN IF w.wt.kind \in {"Panel", "StatusBar"} /\ RectContains(handle_rect, pos)
            THEN [s |-> [s EXCEPT !.resizing_widget = idx,
                                  !.resize_start_size = w.size,
                                  !.last_mouse_pos = <<pos>>],
                  ret |-> FALSE]
            ELSE IF w.wt.kind = "Knob"
            THEN IF LengthSq(pos.x - (w.position.x + Half(w.size.x)),
                             pos.y - (w.position.y + Px(37))) <= Px(32) * Px(32)
                 THEN [s |-> [s EXCEPT !.interacting_widget = idx,
                                       !.last_mouse_pos = <<pos>>],
                       ret |-> FALSE]
                 ELSE drag
            ELSE IF w.wt.kind = "Panel" /\ RectContains(title_area, pos)
                    /\ pos.x < w.position.x + Px(30)
            THEN [s |-> [s EXCEPT !.widgets = handle_widget_interaction(@, idx, pos)],
                  ret |-> TRUE]
            ELSE drag
    ELSE [s |-> s, ret |-> FALSE]

\* lines 843-854: knob turning
KnobStage(s, in) ==
    IF s.interacting_widget = NoIdx THEN s
    ELSE IF in.held
    THEN IF in.pos # <<>> /\ s.last_mouse_pos # <<>>
         THEN [s EXCEPT
                 !.widgets = handle_knob_interaction(@, s.interacting_widget,
                                 s.last_mouse_pos[1].y - in.pos[1].y),
                 !.last_mouse_pos = in.pos]
         ELSE s
    ELSE [s EXCEPT !.interacting_widget = NoIdx, !.last_mouse_pos = <<>>]

\* lines 869-872: the content area of a container, inside its margins and
\* below its title bar, at least 50 px wide and high
ContentArea(panel_rect) ==
    LET cminx == panel_rect.minx + PANEL_MARGIN
        cminy == panel_rect.miny + PANEL_TITLE_HEIGHT
    IN RectMinMax(cminx, cminy,
                  cminx + Max2((panel_rect.maxx - panel_rect.minx)
                                   - PANEL_MARGIN * 2, Px(50)),
                  cminy + Max2((panel_rect.maxy - panel_rect.miny)
                                   - PANEL_TITLE_HEIGHT - PANEL_MARGIN, Px(50)))

\* lines 867-889: the dragged position clamped into its container's content
\* area, or into the canvas
ConstrainDrag(ws, crect, idx, new_pos, widget_size) ==
    LET container_panel == find_widget_container_panel(ws, idx)
        bounds == IF container_panel # NoIdx
                  THEN ContentArea(get_rect(At(ws, container_panel)))
                  ELSE crect
        max_x == Max2(bounds.maxx - widget_size.x, bounds.minx)
        max_y == Max2(bounds.maxy - widget_size.y, bounds.miny)
    IN Pos(Clamp(new_pos.x, bounds.minx, max_x), Clamp(new_pos.y, bounds.miny, max_y))

\* a variant of DragStage that carries the widgets a dragged container lists
\* along with it
DragStageCarriesChildren(s, in) ==
    IF s.dragging_widget = NoIdx THEN [s |-> s, ret |-> FALSE]
    ELSE IF ~in.held
    THEN [s |-> [s EXCEPT !.dragging_widget = NoIdx, !.alignment_guides = <<>>,
                          !.drag_hover_panel = NoIdx],
          ret |-> FALSE]
    ELSE IF in.pos = <<>> THEN [s |-> s, ret |-> FALSE]
    ELSE IF ~HasIdx(s.widgets, s.dragging_widget) THEN [s |-> s, ret |-> TRUE]
    ELSE LET idx == s.dragging_widget
             pos == in.pos[1]
             w == At(s.widgets, idx)
             new_pos == Pos(pos.x - s.drag_offset.x, pos.y - s.drag_offset.y)
             constrained == ConstrainDrag(s.widgets, s.canvas_rect, idx, new_pos, w.size)
             final_pos == apply_snapping(s.widgets, s.canvas_rect, idx, constrained, w.size)
             carried(o) == IsContainerKind(w.wt.kind) /\ SeqContains(w.wt.contained, o.id)
         IN [s |-> [s EXCEPT
                      !.alignment_guides = calculate_alignment_guides(s.widgets,
                                               s.canvas_rect, idx, constrained, w.size),
                      !.drag_hover_panel = find_panel_under_position(s.widgets, pos),
                      !.widgets = [i \in DOMAIN s.widgets |->
                          IF i = idx + 1 THEN [w EXCEPT !.position = final_pos]
                          ELSE IF carried(s.widgets[i])
                          THEN [s.widgets[i] EXCEPT
                                  !.position = Pos(@.x + final_pos.x - w.position.x,
                                                   @.y + final_pos.y - w.position.y)]
                          ELSE s.widgets[i]]],
             ret |-> FALSE]

\* lines 857-910: the drag tick
DragStage(s, in) ==
    IF s.dragging_widget = NoIdx THEN [s |-> s, ret |-> FALSE]
    ELSE IF ~in.held
    THEN [s |-> [s EXCEPT !.dragging_widget = NoIdx, !.alignment_guides = <<>>,
                          !.drag_hover_panel = NoIdx],
          ret |-> FALSE]
    ELSE IF in.pos = <<>> THEN [s |-> s, ret |-> FALSE]
    ELSE IF ~HasIdx(s.widgets, s.dragging_widget) THEN [s |-> s, ret |-> TRUE]
    ELSE LET idx == s.dragging_widget
             pos == in.pos[1]
             widget_size == At(s.widgets, idx).size
             new_pos == Pos(pos.x - s.drag_offset.x, pos.y - s.drag_offset.y)
             constrained == ConstrainDrag(s.widgets, s.canvas_rect, idx, new_pos, widget_size)
             final_pos == apply_snapping(s.widgets, s.canvas_rect, idx, constrained, widget_size)
         IN [s |-> [s EXCEPT
                      !.alignment_guides = calculate_alignment_guides(s.widgets,
                                               s.canvas_rect, idx, constrained, widget_size),
                      !.drag_hover_panel = find_panel_under_position(s.widgets, pos),
                      !.widgets[idx + 1].position = final_pos],
             ret |-> FALSE]

\* a variant of ResizeWidget that applies the pointer delta without bounds
ResizeWidgetUnclamped(w, dx, dy) ==
    CASE w.wt.kind = "Panel" ->
            [w EXCEPT !.wt.width = @ + dx, !.wt.height = @ + dy,
                      !.size = Vec(w.wt.width + dx, w.wt.height + dy)]
      [] w.wt.kind = "StatusBar" ->
            [w EXCEPT !.size = Vec(w.size.x + dx, w.size.y + dy)]
      [] OTHER -> w

\* the size a resize tick gives a widget: [width, height] of a Panel move by
\* the pointer delta within [100,500] x [100,400], the size of a StatusBar
\* within [200,800] x [40,120]
ResizeWidget(w, dx, dy) ==
    CASE w.wt.kind = "Panel" ->
            LET width == Min2(Max2(w.wt.width + dx, Px(100)), Px(500))
                height == Min2(Max2(w.wt.height + dy, Px(100)), Px(400))
            IN [w EXCEPT !.wt.width = width, !.wt.height = height,
                         !.size = Vec(width, height)]
      [] w.wt.kind = "StatusBar" ->
            [w EXCEPT !.size = Vec(Min2(Max2(w.size.x + dx, Px(200)), Px(800)),
                                   Min2(Max2(w.size.y + dy, Px(40)), Px(120)))]
      [] OTHER -> w

\* lines 913-945: the resize tick
ResizeStage(s, in) ==
    IF s.resizing_widget = NoIdx THEN s
    ELSE IF in.held
    THEN IF in.pos # <<>> /\ s.last_mouse_pos # <<>>
         THEN [s EXCEPT
                 !.widgets = IF HasIdx(@, s.resizing_widget)
                             THEN [@ EXCEPT ![s.resizing_widget + 1] =
                                     ResizeWidget(@, in.pos[1].x - s.last_mouse_pos[1].x,
                                                     in.pos[1].y - s.last_mouse_pos[1].y)]
                             ELSE @,
                 !.last_mouse_pos = in.pos]
         ELSE s
    ELSE [s EXCEPT !.resizing_widget = NoIdx, !.last_mouse_pos = <<>>]

\* lines 948-964: single clicks on the remaining widgets
SingleClickStage(s, in) ==
    IF in.pressed /\ s.dragging_widget = NoIdx /\ s.interacting_widget = NoIdx
       /\ s.resizing_widget = NoIdx /\ in.pos # <<>>
       /\ FirstAt(s.widgets, in.pos[1]) # NoIdx
    THEN LET i == FirstAt(s.widgets, in.pos[1])
         IN IF At(s.widgets, i).wt.kind \in {"Knob", "ToggleSwitch", "PushButton", "IconButton"}
            THEN s
            ELSE [s EXCEPT !.widgets = handle_widget_interaction(@, i, in.pos[1])]
    ELSE s

\* the widget's centre lies in no accepting panel (lines 977-984)
should_remove_from_all(ws, widget_rect) ==
    ~\E i \in DOMAIN ws : is_panel_accepting_widgets(ws[i])
                          /\ RectContains(get_rect(ws[i]), RectCenter(widget_rect))

\* the release counts as a click: the widget is less than 5 pixels away from
\* where the pointer would put it (lines 997-1001)
IsClick(w, pos, offset) ==
    LengthSq(w.position.x - (pos.x - offset.x), w.position.y - (pos.y - offset.y))
        < Px(5) * Px(5)

\* lines 967-1019: the release
ReleaseStage(s, in) ==
    IF ~in.released THEN s
    ELSE LET drag_idx == s.dragging_widget
             live == drag_idx # NoIdx /\ HasIdx(s.widgets, drag_idx)
             ws1 == IF live /\ should_remove_from_all(s.widgets,
                                   get_rect(At(s.widgets, drag_idx)))
                    THEN remove_widget_from_containers(s.widgets, At(s.widgets, drag_idx).id)
                    ELSE s.widgets
             ws2 == IF live /\ in.pos # <<>>
                       /\ IsClick(At(ws1, drag_idx), in.pos[1], s.drag_offset)
                       /\ At(ws1, drag_idx).wt.kind \in {"ToggleSwitch", "PushButton", "IconButton"}
                    THEN handle_widget_interaction(ws1, drag_idx, in.pos[1])
                    ELSE ws1
         IN [s EXCEPT !.widgets = ws2, !.dragging_widget = NoIdx,
                      !.interacting_widget = NoIdx, !.resizing_widget = NoIdx,
                      !.last_mouse_pos = <<>>]

handle_drag_drop(s, in) ==
    LET AfterDrag(drag) ==
            IF drag.ret THEN drag.s
            ELSE ReleaseStage(SingleClickStage(ResizeStage(drag.s, in), in), in)
        AfterPress(press) ==
            IF press.ret THEN press.s
            ELSE AfterDrag(DragStage(KnobStage(press.s, in), in))
        AfterClick(click) ==
            IF click.ret THEN click.s
            ELSE IF click.s.palette_dragging # <<>> THEN PaletteStage(click.s, in)
            ELSE AfterPress(PressStage(RightClickStage(click.s, in), in))
    IN AfterClick(ClickStage(s, in))

----------------------------------------------------------------------------
(* The edit window, the frame, and the palette.                            *)

\* widgets.remove(idx)
RemoveAt(ws, idx) == [i \in 1 .. (Len(ws) - 1) |-> IF i <= idx THEN ws[i] ELSE ws[i + 1]]

\* the method show_edit_window (lines 1943-2146): close is the window's close button,
\* delete its "Delete Widget" button; both exist only while the window shows a
\* widget.  The property editors of the window are not part of this model.
ShowEditWindow(s, close, delete) ==
    LET shown == s.editing_widget # NoIdx /\ HasIdx(s.widgets, s.editing_widget)
        s1 == IF s.editing_widget = NoIdx
              THEN [s EXCEPT !.show_edit_window = FALSE]
              ELSE IF shown /\ delete
              THEN [s EXCEPT !.widgets = RemoveAt(@, s.editing_widget),
                             !.editing_widget = NoIdx, !.show_edit_window = FALSE]
              ELSE IF shown /\ close
              THEN [s EXCEPT !.show_edit_window = FALSE]
              ELSE s
    IN IF ~s1.show_edit_window THEN [s1 EXCEPT !.editing_widget = NoIdx] ELSE s1

\* render up to the pointer handling (lines 480-500): the canvas rectangle is
\* the available rectangle below the 60 pixel heading; widgets placed before it
\* was known are laid out on the grid
Laid(s, avail) ==
    LET s1 == [s EXCEPT !.canvas_rect =
                  RectMinMax(avail.minx, avail.miny + Px(60), avail.maxx, avail.maxy)]
    IN IF s1.needs_repositioning
       THEN [reposition_canvas_widgets(s1) EXCEPT !.needs_repositioning = FALSE]
       ELSE s1

\* render (lines 480-614): layout, pointer handling, edit window
render(s, avail, in, close, delete) ==
    LET EditWindow(s3) ==
            IF s3.show_edit_window THEN ShowEditWindow(s3, close, delete) ELSE s3
    IN EditWindow(handle_drag_drop(Laid(s, avail), in))

\* clear_canvas
\* a variant of clear_canvas that also restarts the id counter
clear_canvas_restart(s) == [s EXCEPT !.widgets = <<>>, !.next_id = 0]

clear_canvas(s) == [s EXCEPT !.widgets = <<>>]

\* a variant of calculate_edge_snap that prefers Right when the distances tie
EdgeSnapRightOnTie(canvas, position, size) ==
    LET dl == position.x - canvas.minx
        dr == canvas.maxx - (position.x + size.x)
    IN IF dr < Px(50) /\ (dl >= Px(50) \/ dr <= dl) THEN "Right"
       ELSE IF dl < Px(50) THEN "Left" ELSE "None"

\* Iterator::min_by over (edge, distance) pairs: the first of the least ones
RECURSIVE MinByDistance(_)
MinByDistance(ds) ==
    IF Len(ds) = 1 THEN ds[1]
    ELSE LET rest == MinByDistance(Tail(ds))
         IN IF ds[1].distance <= rest.distance THEN ds[1] ELSE rest

\* DragDropCanvas::calculate_edge_snap (lines 1497-1516), canvas being
\* self.canvas_rect
calculate_edge_snap(canvas, position, size) ==
    LET snap_threshold == Px(50)
        distances == <<[distance |-> position.x - canvas.minx, edge |-> "Left"],
                       [distance |-> canvas.maxx - (position.x + size.x),
                        edge |-> "Right"]>>
        within(d) == d.distance < snap_threshold
        closest == SelectSeq(distances, within)
    IN IF closest = <<>> THEN "None" ELSE MinByDistance(closest).edge

Cur ==
    [widgets |-> widgets, next_id |-> next_id, canvas_rect |-> canvas_rect,
     editing_widget |-> editing_widget, show_edit_window |-> show_edit_window,
     selected_panel |-> selected_panel, pending_widget |-> pending_widget,
     dragging_widget |-> dragging_widget, drag_offset |-> drag_offset,
     interacting_widget |-> interacting_widget, last_mouse_pos |-> last_mouse_pos,
     resizing_widget |-> resizing_widget, resize_start_size |-> resize_start_size,
     palette_dragging |-> palette_dragging, palette_drag_pos |-> palette_drag_pos,
     alignment_guides |-> alignment_guides, drag_hover_panel |-> drag_hover_panel,
     needs_repositioning |-> needs_repositioning]

Becomes(s) ==
    /\ widgets' = s.widgets
    /\ next_id' = s.next_id
    /\ canvas_rect' = s.canvas_rect
    /\ editing_widget' = s.editing_widget
    /\ show_edit_window' = s.show_edit_window
    /\ selected_panel' = s.selected_panel
    /\ pending_widget' = s.pending_widget
    /\ dragging_widget' = s.dragging_widget
    /\ drag_offset' = s.drag_offset
    /\ interacting_widget' = s.interacting_widget
    /\ last_mouse_pos' = s.last_mouse_pos
    /\ resizing_widget' = s.resizing_widget
    /\ resize_start_size' = s.resize_start_size
    /\ palette_dragging' = s.palette_dragging
    /\ palette_drag_pos' = s.palette_drag_pos
    /\ alignment_guides' = s.alignment_guides
    /\ drag_hover_panel' = s.drag_hover_panel
    /\ needs_repositioning' = s.needs_repositioning

\* DragDropCanvas::default
Init ==
    /\ widgets = <<>>
    /\ next_id = 0
    /\ canvas_rect = RectNOTHING
    /\ editing_widget = NoIdx
    /\ show_edit_window = FALSE
    /\ selected_panel = NoIdx
    /\ pending_widget = <<>>
    /\ dragging_widget = NoIdx
    /\ drag_offset = VecZero
    /\ interacting_widget = NoIdx
    /\ last_mouse_pos = <<>>
    /\ resizing_widget = NoIdx
    /\ resize_start_size = VecZero
    /\ palette_dragging = <<>>
    /\ palette_drag_pos = <<>>
    /\ alignment_guides = <<>>
    /\ drag_hover_panel = NoIdx
    /\ needs_repositioning = FALSE
    /\ primary_down = FALSE
    /\ press_origin = <<>>
    /\ edge_snap = <<>>

----------------------------------------------------------------------------
(* The inputs the environment offers.                                      *)

\* The button readings of one frame, given the button's state before it: no
\* event, one event, or a release and a press (a press and a release) in the
\* same frame.
ButtonInputs(down) ==
    IF down
    THEN {[pressed |-> FALSE, released |-> FALSE, held |-> TRUE],
          [pressed |-> FALSE, released |-> TRUE, held |-> FALSE],
          [pressed |-> TRUE, released |-> TRUE, held |-> TRUE]}
    ELSE {[pressed |-> FALSE, released |-> FALSE, held |-> FALSE],
          [pressed |-> TRUE, released |-> FALSE, held |-> TRUE],
          [pressed |-> TRUE, released |-> TRUE, held |-> FALSE]}

\* The available rectangle of the central panel: an 800 x 600 canvas to the
\* right of the palette.
Viewport == RectMinMax(Px(240), Px(40), Px(1040), Px(700))

\* Pointer positions.  The fixed ones lie on the layout the grid placement
\* produces in Viewport (grid cell 0 is at (260,120)); the others are taken
\* relative to the widgets, so that a widget is always grabbed at the same
\* offset and dropped at one of finitely many places.
FixedPositions ==
    {Pos(Px(300), Px(180))}   \* in the first grid cell

\* 10 px inside the widget: where it is grabbed; on a Panel this is the
\* collapse triangle
GrabPoint(w) == Pos(w.position.x + Px(10), w.position.y + Px(10))

\* the title bar of a Panel to the right of the triangle: where it is grabbed
TitlePoint(w) == Pos(w.position.x + Px(40), w.position.y + Px(10))

\* 5 px inside the bottom right corner: the resize handle of a Panel
HandlePoint(w) == Pos(w.position.x + w.size.x - Px(5), w.position.y + w.size.y - Px(5))

\* the centre of the dial of a Knob, and the point 200 px below it: between
\* the two the pointer turns the knob through its whole range
KnobPoints(w) ==
    {Pos(w.position.x + Half(w.size.x), w.position.y + Px(37)),
     Pos(w.position.x + Half(w.size.x), w.position.y + Px(237))}

Panels(ws) == {i \in DOMAIN ws : ws[i].wt.kind = "Panel"}
Knobs(ws) == {i \in DOMAIN ws : ws[i].wt.kind = "Knob"}

\* What a specification explores: the fixed positions (fixed), the edit window
\* (edit), grabbing widgets (grab), moving Panels by their title bars (title),
\* resizing them (resize), turning Knobs (knob).
Explore(fixed, edit, grab, title, resize, knob) ==
    [fixed |-> fixed, edit |-> edit, grab |-> grab, title |-> title,
     resize |-> resize, knob |-> knob]

\* The pointer moves between the fixed positions and the points of the widgets
\* that are explored; it goes to a resize handle only with the button up.
PointerPositions(ws, down, ex) ==
    (IF ex.fixed THEN FixedPositions ELSE {})
    \cup (IF ex.grab THEN {GrabPoint(ws[i]) : i \in DOMAIN ws} ELSE {})
    \cup (IF ex.title THEN {TitlePoint(ws[i]) : i \in Panels(ws)} ELSE {})
    \cup (IF down \/ ~ex.resize THEN {} ELSE {HandlePoint(ws[i]) : i \in Panels(ws)})
    \cup (IF ex.knob THEN UNION {KnobPoints(ws[i]) : i \in Knobs(ws)} ELSE {})

PointerInputs(ws, down, ex) ==
    {<<>>} \cup {<<p>> : p \in PointerPositions(ws, down, ex)}

\* Where the button goes down: on no widget, or on one of the points above of
\* the widget that is on top there, or anywhere on the canvas while a palette
\* selection waits to be placed.
PressPoint(s, pos) ==
    IF TopmostAt(s.widgets, pos) = NoIdx THEN TRUE
    ELSE IF s.pending_widget # <<>> /\ pos.x > PaletteWidth THEN TRUE
    ELSE LET w == At(s.widgets, TopmostAt(s.widgets, pos))
         IN IF w.wt.kind = "Panel" THEN pos \in {GrabPoint(w), TitlePoint(w), HandlePoint(w)}
            ELSE IF w.wt.kind = "Knob" THEN pos \in {GrabPoint(w)} \cup KnobPoints(w)
            ELSE pos = GrabPoint(w)

\* The inputs of one frame: the pointer position, the button readings, a
\* secondary press, and the two buttons of the edit window.
FrameInputs(s, down, ex) ==
    {in \in [b : ButtonInputs(down), pos : PointerInputs(s.widgets, down, ex),
             right : IF ex.edit THEN BOOLEAN ELSE {FALSE},
             close : IF ex.edit THEN BOOLEAN ELSE {FALSE},
             delete : IF ex.edit THEN BOOLEAN ELSE {FALSE}] :
        /\ (in.close \/ in.delete) => (in.b.released /\ in.pos # <<>>)
        /\ ~(in.close /\ in.delete)
        /\ in.right => (~in.b.pressed /\ ~in.b.released)
        /\ in.b.pressed => (in.pos # <<>> /\ PressPoint(s, in.pos[1]))}

\* The widget kinds picked from the palette by a click, and by a drag.
PaletteKinds == {"ToggleSwitch", "Panel"}
DragKinds == {"ToggleSwitch"}

\* The widget types passed to the public add_widget.
SpawnTypes == {PaletteType("ToggleSwitch")}

----------------------------------------------------------------------------
(* Actions.                                                                *)

\* a palette button is clicked: the kind becomes the pending widget
PaletteSelect(k) ==
    /\ Becomes([Cur EXCEPT !.pending_widget = <<PaletteType(k)>>])
    /\ UNCHANGED <<primary_down, press_origin, edge_snap>>

\* a palette button reports a drag start (show_widget_palette, e.g. lines
\* 1547-1556): the kind becomes the palette drag, whatever else is active
PaletteDragStart(k) ==
    /\ Becomes([Cur EXCEPT !.palette_dragging = <<PaletteType(k)>>])
    /\ UNCHANGED <<primary_down, press_origin, edge_snap>>

\* the "Clear Canvas" button
ClearCanvas ==
    /\ widgets # <<>>
    /\ Becomes(clear_canvas(Cur))
    /\ UNCHANGED <<primary_down, press_origin, edge_snap>>

\* the public add_widget; at most max widgets are ever created
AddWidget(wt, max) ==
    /\ next_id < max
    /\ Becomes(add_widget(Cur, wt))
    /\ UNCHANGED <<primary_down, press_origin, edge_snap>>

\* one frame of the canvas: render with the frame's pointer input
RenderIn(avail, in, max) ==
    \E s \in {render(Cur, avail,
                     [pos |-> in.pos, pressed |-> in.b.pressed, released |-> in.b.released,
                      right |-> in.right, held |-> in.b.held],
                     in.close, in.delete)} :
       /\ s.next_id <= max
       /\ Becomes(s)
       /\ primary_down' = in.b.held
       /\ press_origin' = IF ~in.b.held THEN <<>>
                          ELSE IF in.b.pressed THEN in.pos ELSE press_origin
       /\ UNCHANGED edge_snap

\* a frame in the 800 x 600 viewport
Render(in, max) == RenderIn(Viewport, in, max)

\* The canvas with toggles and panels, the palette and the edit window.
ExSpec == Explore(TRUE, TRUE, TRUE, FALSE, FALSE, FALSE)
Inputs == FrameInputs(Laid(Cur, Viewport), primary_down, ExSpec)

Next ==
    \/ \E k \in PaletteKinds : PaletteSelect(k)
    \/ \E k \in DragKinds : PaletteDragStart(k)
    \/ ClearCanvas
    \/ \E wt \in SpawnTypes : AddWidget(wt, MaxIds)
    \/ \E in \in Inputs : Render(in, MaxIds)

Spec == Init /\ [][Next]_vars

\* Panels spawned by add_widget, panels and toggles placed into them from the
\* palette, panels collapsed and expanded.
MaxPanelIds == 3
PanelTypes == {PaletteType("Panel"), IconPanelType}
ExPanels == Explore(FALSE, FALSE, TRUE, FALSE, FALSE, FALSE)
PanelInputs == FrameInputs(Laid(Cur, Viewport), primary_down, ExPanels)

PanelPalette == {"Panel", "ToggleSwitch"}

NextPanels ==
    \/ \E k \in PanelPalette : PaletteSelect(k)
    \/ \E wt \in PanelTypes : AddWidget(wt, MaxPanelIds)
    \/ \E in \in PanelInputs : Render(in, MaxPanelIds)

SpecPanels == Init /\ [][NextPanels]_vars

\* Knobs spawned by add_widget and turned, never moved.
MaxKnobs == 3
ExKnobs == Explore(FALSE, FALSE, FALSE, FALSE, FALSE, TRUE)
KnobInputs == FrameInputs(Laid(Cur, Viewport), primary_down, ExKnobs)

NextKnobs ==
    \/ AddWidget(PaletteType("Knob"), MaxKnobs)
    \/ \E in \in KnobInputs : Render(in, MaxKnobs)

SpecKnobs == Init /\ [][NextKnobs]_vars

----------------------------------------------------------------------------
(* The claims.                                                             *)

ActiveSessions ==
    (IF dragging_widget # NoIdx THEN 1 ELSE 0)
    + (IF resizing_widget # NoIdx THEN 1 ELSE 0)
    + (IF interacting_widget # NoIdx THEN 1 ELSE 0)
    + (IF palette_dragging # <<>> THEN 1 ELSE 0)

\* C1: in every reachable state at most one of dragging_widget,
\* resizing_widget, interacting_widget and palette_dragging is set.
C1_SingleSession == ActiveSessions <= 1

Containers == {i \in DOMAIN widgets : IsContainerKind(widgets[i].wt.kind)}

NoSession == ActiveSessions = 0 /\ ~primary_down

\* C3: between pointer sessions, the rectangle of every widget listed by a
\* container lies inside the content area of that container.
C3_ChildInsideContent ==
    NoSession =>
        \A c \in Containers : \A w \in DOMAIN widgets :
            SeqContains(widgets[c].wt.contained, widgets[w].id) =>
                RectContainsRect(ContentArea(get_rect(widgets[c])), get_rect(widgets[w]))

\* C9: every id listed by a container is the id of a widget that exists.
C9_ContainedExist ==
    \A c \in Containers : \A k \in DOMAIN widgets[c].wt.contained :
        widgets[c].wt.contained[k] \in WidgetIds(widgets)

Visible(ws, i) == ~is_widget_in_minimized_panel(ws, ws[i].id)

\* a is the id of a container from which the id b is reached by following
\* contained_widgets at most fuel times
RECURSIVE Reaches(_, _, _, _)
Reaches(ws, a, b, fuel) ==
    /\ fuel > 0
    /\ \E c \in DOMAIN ws :
          /\ IsContainerKind(ws[c].wt.kind) /\ ws[c].id = a
          /\ \E k \in DOMAIN ws[c].wt.contained :
                \/ ws[c].wt.contained[k] = b
                \/ Reaches(ws, ws[c].wt.contained[k], b, fuel - 1)

Related(ws, i, j) ==
    Reaches(ws, ws[i].id, ws[j].id, Len(ws)) \/ Reaches(ws, ws[j].id, ws[i].id, Len(ws))

NoOverlap(ws) ==
    \A i, j \in DOMAIN ws :
        (i < j /\ Visible(ws, i) /\ Visible(ws, j) /\ ~Related(ws, i, j))
            => ~RectIntersects(RectExpand(get_rect(ws[i]), Px(1)), get_rect(ws[j]))

\* C2: once the canvas rectangle is known, after a step that creates a widget,
\* and after a step that ends a drag, no two visible widgets outside an
\* ancestor/descendant relation have rectangles that intersect once expanded
\* by 1px.
C2_NoOverlap ==
    [][(/\ ~canvas_rect.nothing
        /\ \/ next_id' = next_id + 1
           \/ (dragging_widget # NoIdx /\ dragging_widget' = NoIdx))
          => NoOverlap(widgets')]_vars

\* C4: next_id never decreases and advances by at most one in a step; a widget
\* that appears in a step has the id next_id, and next_id then advances by
\* exactly one; every id in use is below next_id and used by one widget only,
\* so no id is ever given twice.
C4_FreshIds ==
    [][LET created == {i \in DOMAIN widgets' : widgets'[i].id \notin WidgetIds(widgets)}
       IN /\ next_id' \in {next_id, next_id + 1}
          /\ Cardinality(created) <= next_id' - next_id
          /\ \A i \in created : widgets'[i].id = next_id
          /\ \A i \in DOMAIN widgets' : widgets'[i].id < next_id'
          /\ \A i, j \in DOMAIN widgets' : widgets'[i].id = widgets'[j].id => i = j]_vars

\* a widget was created after an earlier one was deleted or cleared
C4_Witness == next_id = 2 /\ Len(widgets) = 1 /\ widgets[1].id = 1

\* C8: a step that inverts the collapsed field of a Panel sets its size to
\* (width, 40), or (40, 40) with minimize_to_settings_icon, when it collapses
\* and to (width, height) when it expands, and changes neither its
\* contained_widgets nor the position the frame's layout gave it.
C8_CollapseSize ==
    [][LET before == Laid(Cur, Viewport).widgets
       IN \A i \in DOMAIN before : \A j \in DOMAIN widgets' :
          (/\ before[i].id = widgets'[j].id
           /\ before[i].wt.kind = "Panel"
           /\ widgets'[j].wt.collapsed # before[i].wt.collapsed)
          => /\ widgets'[j].size =
                   IF widgets'[j].wt.collapsed
                   THEN IF before[i].wt.icon THEN Vec(Px(40), Px(40))
                        ELSE Vec(before[i].wt.width, Px(40))
                   ELSE Vec(before[i].wt.width, before[i].wt.height)
             /\ widgets'[j].wt.contained = before[i].wt.contained
             /\ widgets'[j].position = before[i].position]_vars

\* a collapsed icon Panel that lists a widget
C8_Witness ==
    \E c \in Containers : /\ widgets[c].wt.collapsed /\ widgets[c].wt.icon
                          /\ widgets[c].size = Vec(Px(40), Px(40))
                          /\ widgets[c].wt.contained # <<>>

Listings(ws, id) ==
    {<<c, k>> \in (DOMAIN ws) \X (0 .. Len(ws)) :
        /\ IsContainerKind(ws[c].wt.kind)
        /\ k \in DOMAIN ws[c].wt.contained
        /\ ws[c].wt.contained[k] = id}

\* C10: each widget id is listed by at most one container, at most once.
C10_OneContainer ==
    \A i \in DOMAIN widgets : Cardinality(Listings(widgets, widgets[i].id)) <= 1

\* two containers that each list a widget
C10_Witness ==
    \E c, d \in Containers : /\ c # d /\ widgets[c].wt.contained # <<>>
                             /\ widgets[d].wt.contained # <<>>

\* the widget a live drag session moves
Dragged == widgets[dragging_widget + 1]

\* a ToggleSwitch was pressed, has not moved since, and the frame reports the
\* release at the point of the press, with nothing else going on
ClickRelease(in) ==
    /\ primary_down /\ press_origin # <<>> /\ in.pos = press_origin
    /\ in.b.released /\ ~in.b.pressed /\ ~in.b.held
    /\ ~in.right /\ ~in.close /\ ~in.delete
    /\ palette_dragging = <<>> /\ interacting_widget = NoIdx /\ resizing_widget = NoIdx
    /\ HasIdx(widgets, dragging_widget)
    /\ Dragged.wt.kind = "ToggleSwitch"
    /\ Dragged.position = Pos(press_origin[1].x - drag_offset.x,
                              press_origin[1].y - drag_offset.y)

\* C5: the frame that releases a pressed ToggleSwitch where it was pressed
\* inverts its on field and leaves its position as it was.
C5_ClickToggles ==
    [][\A in \in Inputs :
          (ClickRelease(in) /\ Render(in, MaxIds))
          => \E j \in DOMAIN widgets' :
                /\ widgets'[j].id = Dragged.id
                /\ widgets'[j].wt.on = ~Dragged.wt.on
                /\ widgets'[j].position = Dragged.position]_vars

\* C6: on a canvas of 800 x 600, a spawned Knob is at a position of its own,
\* overlaps no other Knob, and is to the left of the Knob spawned before it in
\* the same row, or in a lower row.
C6_RightToLeft ==
    [][(/\ next_id' = next_id + 1 /\ widgets # <<>>
        /\ ~canvas_rect.nothing
        /\ canvas_rect.maxx - canvas_rect.minx = Px(800)
        /\ canvas_rect.maxy - canvas_rect.miny = Px(600))
       => LET n == Len(widgets')
              new == widgets'[n]
              prev == widgets'[n - 1]
          IN /\ \A i \in 1 .. (n - 1) :
                   /\ widgets'[i].position # new.position
                   /\ ~RectIntersects(get_rect(widgets'[i]), get_rect(new))
             /\ \/ new.position.y = prev.position.y /\ new.position.x < prev.position.x
                \/ new.position.y > prev.position.y]_vars

CenterX(position, size) == position.x + Half(size.x)
CenterY(position, size) == position.y + Half(size.y)

\* a frame that only holds the button down during a live drag
DragTick(in) ==
    /\ in.b.held /\ ~in.b.pressed /\ ~in.b.released /\ in.pos # <<>> /\ ~in.right
    /\ palette_dragging = <<>>
    /\ HasIdx(widgets, dragging_widget)

\* C7: in a drag tick, when the centre of the candidate position is within 8px
\* of the centre of another widget on an axis, the position written has the
\* two centres equal on that axis.
C7_CenterSnap ==
    [][\A in \in Inputs :
          (DragTick(in) /\ Render(in, MaxIds))
          => LET laid == Laid(Cur, Viewport)
                 w == At(laid.widgets, dragging_widget)
                 cand == ConstrainDrag(laid.widgets, laid.canvas_rect, dragging_widget,
                             Pos(in.pos[1].x - drag_offset.x, in.pos[1].y - drag_offset.y),
                             w.size)
                 new == At(widgets', dragging_widget)
             IN \A i \in DOMAIN laid.widgets :
                   i - 1 # dragging_widget =>
                      LET o == laid.widgets[i]
                      IN /\ Abs(CenterX(cand, w.size) - CenterX(o.position, o.size))
                                < SnapThreshold
                            => CenterX(new.position, new.size) = CenterX(o.position, o.size)
                         /\ Abs(CenterY(cand, w.size) - CenterY(o.position, o.size))
                                < SnapThreshold
                            => CenterY(new.position, new.size) = CenterY(o.position, o.size)]_vars

\* the four session fields are unset in the next state
IdleNext ==
    /\ dragging_widget' = NoIdx
    /\ resizing_widget' = NoIdx
    /\ interacting_widget' = NoIdx
    /\ palette_dragging' = <<>>

\* C11: after any frame whose pointer event reports a primary release,
\* dragging_widget, resizing_widget, interacting_widget and palette_dragging
\* are all unset, whichever session was active and whether or not a pointer
\* position is available.
C11_ReleaseIdle ==
    [][\A in \in Inputs : (in.b.released /\ Render(in, MaxIds)) => IdleNext]_vars

\* a session field holds an index that is no longer in the widget list: the
\* widget the session was started on has been deleted
StaleSession ==
    \/ dragging_widget # NoIdx /\ ~HasIdx(widgets, dragging_widget)
    \/ resizing_widget # NoIdx /\ ~HasIdx(widgets, resizing_widget)
    \/ interacting_widget # NoIdx /\ ~HasIdx(widgets, interacting_widget)

\* C12: when the widget of a Dragging, Resizing or AdjustingValue session has
\* been deleted, the next frame leaves dragging_widget, resizing_widget and
\* interacting_widget unset (so that the session cannot act on another widget).
C12_StaleAbandoned ==
    [][\A in \in Inputs :
          (/\ StaleSession
           /\ palette_dragging = <<>> /\ pending_widget = <<>>
           /\ Render(in, MaxIds))
          => /\ dragging_widget' = NoIdx
             /\ resizing_widget' = NoIdx
             /\ interacting_widget' = NoIdx]_vars

\* the selected container of state s is missing or does not accept widgets
SelectionUnusable(s) ==
    /\ s.selected_panel # NoIdx
    /\ LET i == FirstWithId(s.widgets, s.selected_panel)
       IN i = NoIdx \/ ~is_panel_accepting_widgets(At(s.widgets, i))

\* from widgets ws0 and counter nid0, exactly one widget of type wt was created:
\* it has the fresh id, is listed by no container, stands where the canvas
\* placement puts it, every other widget (every container's list included) is
\* as before, and the selection is cleared
CanvasFallback(ws0, nid0, crect, wt, ws1, nid1, sel1) ==
    /\ sel1 = NoIdx
    /\ nid1 = nid0 + 1
    /\ Len(ws1) = Len(ws0) + 1
    /\ \A i \in DOMAIN ws0 : ws1[i] = ws0[i]
    /\ LET new == ws1[Len(ws1)]
       IN /\ new.id = nid0
          /\ new.wt = wt
          /\ \A c \in DOMAIN ws1 : ~SeqContains(ws1[c].wt.contained, new.id)
          /\ new.position = calculate_grid_position(crect, count_canvas_widgets(ws0), wt)

\* the frame places the pending widget with a click inside the selected
\* container, which is collapsed: handle_drag_drop calls
\* add_widget_to_selected_panel (line 668) on a container that does not accept it
FallbackFrame(in) ==
    LET laid == Laid(Cur, Viewport)
    IN /\ in.b.pressed /\ ~in.delete /\ in.pos # <<>>
       /\ in.pos[1].x > PaletteWidth
       /\ pending_widget # <<>>
       /\ PanelAt(laid.widgets, in.pos[1]) = NoIdx
       /\ SelectionUnusable(laid)
       /\ LET i == FirstWithId(laid.widgets, selected_panel)
          IN i # NoIdx /\ RectContains(get_rect(At(laid.widgets, i)), in.pos[1])

\* C13: when add_widget_to_selected_panel is called and the selected container
\* is collapsed or no longer exists, selected_panel becomes None, exactly one
\* widget is created, it is in no container and positioned by the canvas
\* placement, and the containers' lists are unchanged.  The first conjunct
\* applies the function in every state whose selection is unusable, the second
\* is the frame in which handle_drag_drop makes the call.
C13_FallbackToCanvas ==
    [][/\ LET laid == Laid(Cur, Viewport)
          IN SelectionUnusable(laid) =>
               \A wt \in SpawnTypes : \A pos \in FixedPositions :
                  LET r == add_widget_to_selected_panel(laid, wt, pos)
                  IN CanvasFallback(laid.widgets, laid.next_id, laid.canvas_rect, wt,
                                    r.widgets, r.next_id, r.selected_panel)
       /\ (pending_widget # <<>> /\ selected_panel # NoIdx) =>
            \A in \in Inputs :
               (FallbackFrame(in) /\ Render(in, MaxIds)) =>
                  LET laid == Laid(Cur, Viewport)
                  IN CanvasFallback(laid.widgets, next_id, laid.canvas_rect,
                                    pending_widget[1],
                                    widgets', next_id', selected_panel')]_vars

\* a click at the triangle of a collapsed Panel has just placed a widget: the
\* Panel is still collapsed and lists nothing new, the selection is cleared and
\* the newest widget is on the canvas
C13_Witness ==
    /\ primary_down /\ press_origin # <<>> /\ selected_panel = NoIdx
    /\ dragging_widget = NoIdx /\ pending_widget = <<>>
    /\ \E c \in Containers :
          /\ widgets[c].wt.collapsed
          /\ press_origin[1] = GrabPoint(widgets[c])
    /\ \E i \in DOMAIN widgets :
          /\ widgets[i].id = next_id - 1
          /\ \A c \in DOMAIN widgets : ~SeqContains(widgets[c].wt.contained, widgets[i].id)

\* C14: a spawn into a container takes an overlap-free slot of the container or
\* else goes to the canvas: a newly created widget that a container lists
\* intersects none of the other widgets that container lists.
C14_SlotOrCanvas ==
    [][next_id' = next_id + 1 =>
         \A c, n, k \in DOMAIN widgets' :
            (/\ widgets'[n].id = next_id
             /\ k # n
             /\ SeqContains(widgets'[c].wt.contained, widgets'[n].id)
             /\ SeqContains(widgets'[c].wt.contained, widgets'[k].id))
            => ~RectIntersects(get_rect(widgets'[n]), get_rect(widgets'[k]))]_vars

\* a secondary press over a widget
SecondaryPress(in) ==
    /\ in.right /\ in.pos # <<>>
    /\ TopmostAt(Laid(Cur, Viewport).widgets, in.pos[1]) # NoIdx

\* C15: in every interaction state, PaletteDragging included, a secondary press
\* over a widget opens the editor on the topmost widget under the pointer:
\* editing_widget is set to it and show_edit_window is true.
C15_SecondaryOpensEditor ==
    [][\A in \in Inputs :
          (SecondaryPress(in) /\ Render(in, MaxIds))
          => /\ show_edit_window'
             /\ editing_widget' = TopmostAt(Laid(Cur, Viewport).widgets, in.pos[1])]_vars

----------------------------------------------------------------------------
(* Resizing.                                                               *)

\* Panels and status bars spawned by add_widget, resized by their handles and
\* collapsed by their triangles.  With the button up the pointer goes to a
\* resize handle or a collapse triangle; with the button down it moves to
\* points near and far, so that the deltas fall inside and outside the ranges.
MaxResizeIds == 2
ResizeTypes == {PaletteType("Panel"), PaletteType("StatusBar")}
Resizable(ws) == {i \in DOMAIN ws : ws[i].wt.kind \in {"Panel", "StatusBar"}}
FarPoints == {Pos(Px(0), Px(0)), Pos(Px(1200), Px(800))}

\* the first move after a press on a widget of spawn size may also be a short
\* one, down and to the right
ResizePositions(ws, down) ==
    IF down
    THEN FarPoints \cup (IF /\ press_origin # <<>> /\ last_mouse_pos = press_origin
                            /\ resize_start_size \in {calculate_size(wt) : wt \in ResizeTypes}
                         THEN {Pos(press_origin[1].x + Px(40), press_origin[1].y + Px(20))}
                         ELSE {})
    ELSE {HandlePoint(ws[i]) : i \in Resizable(ws)}
         \cup {GrabPoint(ws[i]) : i \in Panels(ws)}

\* the button goes down on the handle or the triangle of the widget that is on
\* top at the pointer
ResizePress(ws, pos) ==
    LET t == TopmostAt(ws, pos)
    IN /\ t # NoIdx
       /\ \/ pos = HandlePoint(At(ws, t))
          \/ At(ws, t).wt.kind = "Panel" /\ pos = GrabPoint(At(ws, t))

ResizeInputs ==
    {in \in [b : ButtonInputs(primary_down),
             pos : {<<p>> : p \in ResizePositions(Laid(Cur, Viewport).widgets, primary_down)},
             right : {FALSE}, close : {FALSE}, delete : {FALSE}] :
        in.b.pressed => (~primary_down /\ ResizePress(Laid(Cur, Viewport).widgets, in.pos[1]))}

NextResize ==
    \/ \E wt \in ResizeTypes : AddWidget(wt, MaxResizeIds)
    \/ \E in \in ResizeInputs : Render(in, MaxResizeIds)

SpecResize == Init /\ [][NextResize]_vars

\* C16: in every reachable state each Panel's size is the size derived from its
\* kind and state: (width, height) when expanded, (width, 40) when collapsed,
\* (40, 40) when collapsed with minimize_to_settings_icon.
C16_PanelSizeDerived ==
    \A i \in DOMAIN widgets :
       widgets[i].wt.kind = "Panel" => widgets[i].size = calculate_size(widgets[i].wt)

\* v brought into [lo, hi]
ClampTo(v, lo, hi) == IF v < lo THEN lo ELSE IF v > hi THEN hi ELSE v

\* a hold frame of a resize session with a known pointer delta
ResizeTick(in) ==
    /\ resizing_widget # NoIdx /\ HasIdx(widgets, resizing_widget)
    /\ in.b.held /\ ~in.b.pressed /\ ~in.b.released
    /\ in.pos # <<>> /\ last_mouse_pos # <<>>

\* C17: after every resize tick, for any pointer delta, a Panel's width is its
\* old width plus the delta brought into [100, 500] and its height into
\* [100, 400]; a StatusBar's width is brought into [200, 800] and its height
\* into [40, 120]: an out-of-range delta is clamped to the nearest bound.
C17_ResizeClamped ==
    [][\A in \in ResizeInputs :
          (ResizeTick(in) /\ Render(in, MaxResizeIds)) =>
             LET old == Laid(Cur, Viewport).widgets[resizing_widget + 1]
                 new == widgets'[resizing_widget + 1]
                 dx == in.pos[1].x - last_mouse_pos[1].x
                 dy == in.pos[1].y - last_mouse_pos[1].y
             IN /\ new.id = old.id
                /\ old.wt.kind = "Panel" =>
                     /\ new.wt.width = ClampTo(old.wt.width + dx, Px(100), Px(500))
                     /\ new.wt.height = ClampTo(old.wt.height + dy, Px(100), Px(400))
                /\ old.wt.kind = "StatusBar" =>
                     /\ new.size.x = ClampTo(old.size.x + dx, Px(200), Px(800))
                     /\ new.size.y = ClampTo(old.size.y + dy, Px(40), Px(120))]_vars

\* resize sessions have driven a Panel to its largest size and a StatusBar to
\* its smallest
C17_Witness ==
    /\ resizing_widget # NoIdx
    /\ \E i \in DOMAIN widgets :
          /\ widgets[i].wt.kind = "Panel"
          /\ widgets[i].wt.width = Px(500) /\ widgets[i].wt.height = Px(400)
    /\ \E i \in DOMAIN widgets :
          /\ widgets[i].wt.kind = "StatusBar"
          /\ widgets[i].size = Vec(Px(200), Px(40))

\* C18: the containment relation is acyclic: no container's id is reachable
\* from itself by following contained_widgets; in particular no container
\* lists its own id.
C18_Acyclic ==
    \A c \in Containers : ~Reaches(widgets, widgets[c].id, widgets[c].id, Len(widgets))

\* a container lists a container that lists a widget
C18_Witness ==
    \E c, d \in Containers : \E w \in DOMAIN widgets :
       /\ c # d /\ d # w
       /\ SeqContains(widgets[c].wt.contained, widgets[d].id)
       /\ SeqContains(widgets[d].wt.contained, widgets[w].id)

----------------------------------------------------------------------------
(* The viewport.                                                           *)

\* Toggles spawned by add_widget and dragged, in a window that is resized
\* between frames: the central panel is 800 x 600, or 400 x 460 and 25 pixels
\* further right.
MaxViewIds == 2
SmallViewport == RectMinMax(Px(265), Px(40), Px(665), Px(500))
Viewports == {Viewport, SmallViewport}
ExView == Explore(TRUE, FALSE, TRUE, FALSE, FALSE, FALSE)
ViewInputs(avail) == FrameInputs(Laid(Cur, avail), primary_down, ExView)

NextView ==
    \/ AddWidget(PaletteType("ToggleSwitch"), MaxViewIds)
    \/ \E avail \in Viewports : \E in \in ViewInputs(avail) : RenderIn(avail, in, MaxViewIds)

SpecView == Init /\ [][NextView]_vars

\* the frame has no pointer position and no button event
QuietFrame(in) ==
    in.pos = <<>> /\ ~in.b.pressed /\ ~in.b.released /\ ~in.b.held

\* C19: whenever the viewport rectangle changes between frames, every widget
\* that is in no container is re-positioned by the canvas placement for the new
\* viewport, in its prior order, and the widgets inside containers keep their
\* positions.
C19_ViewportReposition ==
    [][\A avail \in Viewports : \A in \in ViewInputs(avail) :
          (/\ ~canvas_rect.nothing
           /\ canvas_rect' # canvas_rect
           /\ QuietFrame(in)
           /\ RenderIn(avail, in, MaxViewIds))
          => widgets' = reposition_canvas_widgets(
                            [Cur EXCEPT !.canvas_rect = canvas_rect']).widgets]_vars

\* the release of a drag session on a toggle, 5 pixels or more away from where
\* the button went down
MoveRelease(in) ==
    /\ primary_down /\ press_origin # <<>>
    /\ in.b.released /\ ~in.right /\ ~in.close /\ ~in.delete
    /\ in.pos # <<>>
    /\ LengthSq(in.pos[1].x - press_origin[1].x, in.pos[1].y - press_origin[1].y)
          >= Px(5) * Px(5)
    /\ palette_dragging = <<>> /\ pending_widget = <<>>
    /\ interacting_widget = NoIdx /\ resizing_widget = NoIdx
    /\ HasIdx(widgets, dragging_widget)
    /\ Dragged.wt.kind = "ToggleSwitch"
    /\ RectContains(RectFromMinSize(Pos(press_origin[1].x - drag_offset.x,
                                        press_origin[1].y - drag_offset.y),
                                    Dragged.size), press_origin[1])

\* C20: a press on a ToggleSwitch followed by hold ticks and a release with a
\* total pointer displacement of 5 pixels or more is a move: the release leaves
\* the widget's on field as it was.
C20_MoveKeepsState ==
    [][\A in \in Inputs :
          (MoveRelease(in) /\ Render(in, MaxIds))
          => \E j \in DOMAIN widgets' :
                /\ widgets'[j].id = Dragged.id
                /\ widgets'[j].wt.on = Dragged.wt.on]_vars

\* the release of a drag session on a live widget, 5 pixels or more away from
\* where the button went down
DragRelease(in) ==
    /\ primary_down /\ press_origin # <<>>
    /\ in.b.released /\ ~in.right /\ ~in.close /\ ~in.delete
    /\ in.pos # <<>>
    /\ LengthSq(in.pos[1].x - press_origin[1].x, in.pos[1].y - press_origin[1].y)
          >= Px(5) * Px(5)
    /\ palette_dragging = <<>> /\ pending_widget = <<>>
    /\ interacting_widget = NoIdx /\ resizing_widget = NoIdx
    /\ HasIdx(widgets, dragging_widget)

\* C21: on the release of a drag of a widget w listed by container c, if w's
\* rectangle is not inside c's rectangle then w's id is removed from c's
\* contained_widgets.
C21_DraggedOutRemoved ==
    [][\A in \in Inputs :
          (DragRelease(in) /\ Render(in, MaxIds)) =>
             \A c \in DOMAIN widgets :
                (/\ IsContainerKind(widgets[c].wt.kind)
                 /\ SeqContains(widgets[c].wt.contained, Dragged.id)
                 /\ ~RectContainsRect(get_rect(widgets'[c]),
                                      get_rect(widgets'[dragging_widget + 1])))
                => ~SeqContains(widgets'[c].wt.contained, Dragged.id)]_vars

\* C22: on the release of a drag of a widget w whose rectangle now lies inside
\* an accepting container d that did not list it, w's id is added to d's
\* contained_widgets.
C22_DroppedInAdded ==
    [][\A in \in Inputs :
          (DragRelease(in) /\ Render(in, MaxIds)) =>
             \A d \in DOMAIN widgets' :
                (/\ d # dragging_widget + 1
                 /\ is_panel_accepting_widgets(widgets'[d])
                 /\ ~SeqContains(widgets[d].wt.contained, Dragged.id)
                 /\ RectContainsRect(get_rect(widgets'[d]),
                                     get_rect(widgets'[dragging_widget + 1])))
                => SeqContains(widgets'[d].wt.contained, Dragged.id)]_vars

----------------------------------------------------------------------------
(* Palette drops.                                                          *)

\* Panels spawned by add_widget; toggles and panels dragged from the palette
\* and dropped on the canvas, on a Panel, or back on the palette.
MaxDropIds == 3
DropKinds == {"ToggleSwitch", "Panel"}
PalettePoint == Pos(Px(100), Px(200))
CornerPoint == Pos(Px(900), Px(600))

\* the pointer goes to the palette, to two canvas points and to the collapse
\* triangles of the Panels
DropPositions(ws) ==
    FixedPositions \cup {PalettePoint, CornerPoint}
        \cup {GrabPoint(ws[i]) : i \in Panels(ws)}

DropInputs ==
    {in \in [b : ButtonInputs(primary_down),
             pos : {<<>>} \cup {<<p>> : p \in DropPositions(Laid(Cur, Viewport).widgets)},
             right : {FALSE}, close : {FALSE}, delete : {FALSE}] :
        in.b.pressed => (in.pos # <<>> /\ PressPoint(Laid(Cur, Viewport), in.pos[1]))}

NextDrop ==
    \/ \E k \in DropKinds : PaletteDragStart(k)
    \/ AddWidget(PaletteType("Panel"), MaxDropIds)
    \/ \E in \in DropInputs : Render(in, MaxDropIds)

SpecDrop == Init /\ [][NextDrop]_vars

\* the release of a palette drag at a pointer position
PaletteRelease(in) ==
    /\ palette_dragging # <<>>
    /\ in.b.released /\ ~in.b.pressed /\ in.pos # <<>>

\* the containers of ws that are expanded and contain the point p
ExpandedAt(ws, p) ==
    {i \in DOMAIN ws : /\ IsContainerKind(ws[i].wt.kind) /\ ~ws[i].wt.collapsed
                       /\ RectContains(get_rect(ws[i]), p)}

\* the containers of ws that list id
ListedBy(ws, id) ==
    {i \in DOMAIN ws : IsContainerKind(ws[i].wt.kind) /\ SeqContains(ws[i].wt.contained, id)}

C24_DropAtPoint ==
    [][\A in \in DropInputs :
          (/\ PaletteRelease(in)
           /\ in.pos[1].x > PaletteWidth
           /\ ExpandedAt(Laid(Cur, Viewport).widgets, in.pos[1]) = {}
           /\ Render(in, MaxDropIds)) =>
             LET before == Laid(Cur, Viewport).widgets
                 new == widgets'[Len(widgets')]
             IN (\A i \in DOMAIN before :
                    ListedBy(before, before[i].id) = {} =>
                       ~RectIntersects(get_rect(before[i]),
                                       RectFromMinSize(in.pos[1], new.size)))
                => new.position = in.pos[1]]_vars

\* C25: after every drag tick the position written to a dragged widget that is
\* in no container keeps its rectangle inside the canvas rectangle (when the
\* widget is no larger than it), and the position written to a contained widget
\* keeps its rectangle inside its container's content area, also when the
\* snapping overrides a coordinate.
C25_DragInsideBounds ==
    [][\A avail \in Viewports : \A in \in ViewInputs(avail) :
          (DragTick(in) /\ RenderIn(avail, in, MaxViewIds)) =>
             LET c == find_widget_container_panel(widgets, dragging_widget)
                 moved == get_rect(widgets'[dragging_widget + 1])
                 area == IF c # NoIdx THEN ContentArea(get_rect(widgets'[c + 1]))
                         ELSE canvas_rect'
             IN (/\ moved.maxx - moved.minx <= area.maxx - area.minx
                 /\ moved.maxy - moved.miny <= area.maxy - area.miny)
                => RectContainsRect(area, moved)]_vars

----------------------------------------------------------------------------
(* Presses.                                                                *)

\* Panels, status bars, knobs and toggles spawned by add_widget, which overlap
\* on the grid.  With the button up the pointer goes to the grab, title, handle
\* and knob points of every widget, whatever lies on top there, and to an empty
\* point; with the button down it stays where it went down.
MaxPressIds == 2
PressTypes == {PaletteType("Panel"), PaletteType("StatusBar"), PaletteType("Knob"),
               PaletteType("ToggleSwitch")}

PressPositions(ws) ==
    {CornerPoint}
    \cup {GrabPoint(ws[i]) : i \in DOMAIN ws}
    \cup {HandlePoint(ws[i]) : i \in DOMAIN ws}
    \cup {TitlePoint(ws[i]) : i \in Panels(ws)}
    \cup UNION {KnobPoints(ws[i]) : i \in Knobs(ws)}

PressInputs ==
    {in \in [b : ButtonInputs(primary_down),
             pos : IF primary_down THEN {press_origin}
                   ELSE {<<p>> : p \in PressPositions(Laid(Cur, Viewport).widgets)},
             right : {FALSE}, close : {FALSE}, delete : {FALSE}] :
        in.b.pressed => ~in.b.released}

NextPress ==
    \/ \E wt \in PressTypes : AddWidget(wt, MaxPressIds)
    \/ \E in \in PressInputs : Render(in, MaxPressIds)

SpecPress == Init /\ [][NextPress]_vars

\* a primary press from Idle
IdlePress(in) ==
    /\ in.b.pressed /\ ~in.b.released /\ in.pos # <<>>
    /\ ActiveSessions = 0 /\ pending_widget = <<>>

KnobTick(in) ==
    /\ HasIdx(widgets, interacting_widget)
    /\ in.b.held /\ ~in.b.pressed /\ ~in.b.released
    /\ ~in.right /\ ~in.close /\ ~in.delete
    /\ in.pos # <<>> /\ last_mouse_pos # <<>>

\* C27: a hold tick of AdjustingValue changes only the value of the targeted
\* Knob, to clamp(value + (delta_y * 0.5 / 100) * (max - min), min, max) with
\* delta_y the upward pointer movement since the previous tick; the value stays
\* in [min, max] and no widget's position or size changes in the tick.
C27_KnobTick ==
    [][\A in \in KnobInputs :
          (KnobTick(in) /\ Render(in, MaxKnobs)) =>
             LET k == interacting_widget + 1
                 wt == widgets[k].wt
                 delta_y == last_mouse_pos[1].y - in.pos[1].y
                 \* delta_y is in half pixels, the value in units of 1 / ValueScale
                 target == wt.value + (delta_y * (wt.max - wt.min)) \div 400
                 value == IF target < wt.min THEN wt.min
                          ELSE IF target > wt.max THEN wt.max ELSE target
             IN /\ wt.kind = "Knob"
                /\ widgets' = [widgets EXCEPT ![k].wt.value = value]
                /\ widgets'[k].wt.value >= wt.min /\ widgets'[k].wt.value <= wt.max
                /\ interacting_widget' = interacting_widget]_vars

\* a knob session has turned its Knob up to max
C27_Witness ==
    /\ HasIdx(widgets, interacting_widget) /\ primary_down
    /\ widgets[interacting_widget + 1].wt.kind = "Knob"
    /\ widgets[interacting_widget + 1].wt.value = widgets[interacting_widget + 1].wt.max
    /\ last_mouse_pos # press_origin

----------------------------------------------------------------------------
(* Clicks on Settings panels and sliders.                                  *)

\* Settings panels, Panels and sliders spawned by add_widget.  The pointer
\* goes to the grab point of a widget and to a point on the track of a slider;
\* while the button is down it stays where it went down.
MaxClickIds == 2
ClickTypes == {PaletteType("Settings"), PaletteType("Panel"),
               PaletteType("HorizontalSlider"), PaletteType("VerticalSlider")}

Sliders(ws) == {i \in DOMAIN ws : ws[i].wt.kind \in {"HorizontalSlider", "VerticalSlider"}}

\* the track of a slider (lines 1075-1078 and 1085-1088)
Track(w) ==
    LET c == RectCenter(get_rect(w))
    IN IF w.wt.kind = "HorizontalSlider"
       THEN RectMinMax(c.x + Px(10) - Px(48), c.y - Px(4), c.x + Px(10) + Px(48), c.y + Px(4))
       ELSE RectMinMax(c.x - Px(4), c.y - Px(10) - Px(48), c.x + Px(4), c.y - Px(10) + Px(48))

\* a point on the track, a quarter of the way up from min
TrackPoint(w) ==
    LET t == Track(w)
    IN IF w.wt.kind = "HorizontalSlider"
       THEN Pos(t.minx + Px(24), t.miny + Px(4))
       ELSE Pos(t.minx + Px(4), t.miny + Px(72))

ClickPositions(ws) ==
    {CornerPoint}
    \cup {GrabPoint(ws[i]) : i \in DOMAIN ws}
    \cup {TrackPoint(ws[i]) : i \in Sliders(ws)}

ClickInputs ==
    [b : ButtonInputs(primary_down),
     pos : IF primary_down THEN {press_origin}
           ELSE {<<p>> : p \in ClickPositions(Laid(Cur, Viewport).widgets)},
     right : {FALSE}, close : {FALSE}, delete : {FALSE}]

NextClick ==
    \/ \E wt \in ClickTypes : AddWidget(wt, MaxClickIds)
    \/ \E in \in ClickInputs : Render(in, MaxClickIds)

SpecClick == Init /\ [][NextClick]_vars

\* a click in one frame, from Idle, on a widget of kind k that is the only
\* widget under the pointer
ClickOn(in, kinds) ==
    /\ in.b.pressed /\ in.b.released /\ ~in.b.held /\ in.pos # <<>>
    /\ ActiveSessions = 0 /\ pending_widget = <<>>
    /\ FirstAt(widgets, in.pos[1]) # NoIdx
    /\ FirstAt(widgets, in.pos[1]) = TopmostAt(widgets, in.pos[1])
    /\ At(widgets, FirstAt(widgets, in.pos[1])).wt.kind \in kinds

\* C28: the click-toggle behaviour applied to a Settings panel inverts its
\* minimized field and recomputes its size, 40x40 when minimized and 250x300
\* when expanded.
C28_SettingsToggle ==
    [][\A in \in ClickInputs :
          (ClickOn(in, {"Settings"}) /\ Render(in, MaxClickIds)) =>
             LET i == FirstAt(widgets, in.pos[1]) + 1
             IN /\ widgets'[i].wt.collapsed = ~widgets[i].wt.collapsed
                /\ widgets'[i].size = IF widgets'[i].wt.collapsed
                                      THEN Vec(Px(40), Px(40))
                                      ELSE Vec(Px(250), Px(300))]_vars

\* a primary press from Idle on the track of a slider that is the only widget
\* under the pointer
TrackPress(in) ==
    /\ in.b.pressed /\ in.pos # <<>>
    /\ ActiveSessions = 0 /\ pending_widget = <<>>
    /\ TopmostAt(widgets, in.pos[1]) # NoIdx
    /\ FirstAt(widgets, in.pos[1]) = TopmostAt(widgets, in.pos[1])
    /\ TopmostAt(widgets, in.pos[1]) + 1 \in Sliders(widgets)
    /\ RectContains(Track(At(widgets, TopmostAt(widgets, in.pos[1]))), in.pos[1])

\* C29: a primary press on the track of a HorizontalSlider or VerticalSlider
\* sets its value to min + fraction * (max - min), fraction being the pointer
\* position projected onto the track (from the left end, and from the bottom
\* end), and does not start a drag of the slider.
C29_TrackPressSetsValue ==
    [][\A in \in ClickInputs :
          (TrackPress(in) /\ Render(in, MaxClickIds)) =>
             LET i == TopmostAt(widgets, in.pos[1]) + 1
                 w == widgets[i]
                 t == Track(w)
                 u == IF w.wt.kind = "HorizontalSlider" THEN in.pos[1].x - t.minx
                      ELSE t.maxy - in.pos[1].y
             IN /\ widgets'[i].wt.value
                      = w.wt.min + (u * (w.wt.max - w.wt.min)) \div Px(96)
                /\ dragging_widget' = NoIdx]_vars

----------------------------------------------------------------------------
(* Edge snapping.                                                          *)

\* calculate_edge_snap is called with the canvas of either viewport and with
\* rectangles at these distances from its left and from its right edge; the
\* widths are those of a Settings panel, minimized and expanded, and two that
\* bring both edges close at once.
EdgeDistances == {0 - Px(10), 0, Px(30), Px(49), Px(50) - 1, Px(50), Px(50) + 1, Px(60), Px(200)}

EdgeSizes(canvas) ==
    {Vec(Px(40), Px(40)), Vec(Px(250), Px(300)),
     Vec(canvas.maxx - canvas.minx - Px(60), Px(300)),
     Vec(canvas.maxx - canvas.minx - Px(80), Px(300))}

EdgePositions(canvas, size) ==
    {Pos(canvas.minx + d, canvas.miny) : d \in EdgeDistances}
    \cup {Pos(canvas.maxx - size.x - d, canvas.miny) : d \in EdgeDistances}

\* one call of calculate_edge_snap
EdgeSnap(position, size) ==
    /\ ~canvas_rect.nothing
    /\ edge_snap' = <<[position |-> position, size |-> size,
                       edge |-> calculate_edge_snap(canvas_rect, position, size)]>>
    /\ UNCHANGED <<widgets, next_id, canvas_rect, editing_widget, show_edit_window,
                   selected_panel, pending_widget, dragging_widget, drag_offset,
                   interacting_widget, last_mouse_pos, resizing_widget,
                   resize_start_size, palette_dragging, palette_drag_pos,
                   alignment_guides, drag_hover_panel, needs_repositioning,
                   primary_down, press_origin>>

\* a frame without pointer input in the viewport avail
Frame(avail, max) ==
    RenderIn(avail, [b |-> [pressed |-> FALSE, released |-> FALSE, held |-> FALSE],
                     pos |-> <<>>,
                     right |-> FALSE, close |-> FALSE, delete |-> FALSE], max)

NextEdge ==
    \/ \E avail \in Viewports : Frame(avail, 0)
    \/ \E size \in EdgeSizes(canvas_rect) :
          \E position \in EdgePositions(canvas_rect, size) : EdgeSnap(position, size)

SpecEdge == Init /\ [][NextEdge]_vars

\* C30: calculate_edge_snap returns only Left, Right or None: with
\* dL = x - viewport.left and dR = viewport.right - (x + width) it returns None
\* when both are at least 50, otherwise the edge with the smaller distance among
\* those below 50, Left on a tie; the call changes no widget.
C30_EdgeSnap ==
    [][edge_snap' # edge_snap =>
          LET call == edge_snap'[1]
              dL == call.position.x - canvas_rect.minx
              dR == canvas_rect.maxx - (call.position.x + call.size.x)
          IN /\ call.edge \in {"Left", "Right", "None"}
             /\ (dL >= Px(50) /\ dR >= Px(50)) => call.edge = "None"
             /\ (dL < Px(50) /\ dR >= Px(50)) => call.edge = "Left"
             /\ (dR < Px(50) /\ dL >= Px(50)) => call.edge = "Right"
             /\ (dL < Px(50) /\ dR < Px(50) /\ dL <= dR) => call.edge = "Left"
             /\ (dL < Px(50) /\ dR < Px(50) /\ dR < dL) => call.edge = "Right"
             /\ widgets' = widgets /\ canvas_rect' = canvas_rect]_vars

\* a call with both edges at the same distance below 50, which returned Left
C30_Witness ==
    /\ edge_snap # <<>> /\ ~canvas_rect.nothing
    /\ edge_snap[1].position.x - canvas_rect.minx
          = canvas_rect.maxx - (edge_snap[1].position.x + edge_snap[1].size.x)
    /\ edge_snap[1].position.x - canvas_rect.minx < Px(50)
    /\ edge_snap[1].edge = "Left"

----------------------------------------------------------------------------
(* Hidden widgets.                                                         *)

\* The widgets field is public: a caller can hand the canvas any containment
\* graph.  Three containers, each listed by at most one container (possibly by
\* itself, possibly in a cycle), each collapsed / minimized or not; the canvas
\* then renders frames.
MaxHiddenIds == 3
HiddenKinds == <<"Panel", "Settings", "Panel">>
HiddenParents == [0 .. MaxHiddenIds - 1 -> {NoIdx} \cup (0 .. MaxHiddenIds - 1)]

\* the ids whose parent is c, in increasing order
RECURSIVE ChildrenFrom(_, _, _)
ChildrenFrom(parent, c, id) ==
    IF id >= MaxHiddenIds THEN <<>>
    ELSE (IF parent[id] = c THEN <<id>> ELSE <<>>) \o ChildrenFrom(parent, c, id + 1)

HiddenLayout(parent, collapsed) ==
    [i \in 1 .. MaxHiddenIds |->
        LET wt == [PaletteType(HiddenKinds[i]) EXCEPT
                      !.collapsed = collapsed[i],
                      !.contained = ChildrenFrom(parent, i - 1, 0)]
        IN NewWidget(i - 1, wt, Pos(Px(50), Px(50)))]

InitHidden ==
    /\ widgets \in {HiddenLayout(parent, collapsed) :
                        parent \in HiddenParents,
                        collapsed \in [1 .. MaxHiddenIds -> BOOLEAN]}
    /\ next_id = MaxHiddenIds
    /\ canvas_rect = RectNOTHING
    /\ editing_widget = NoIdx
    /\ show_edit_window = FALSE
    /\ selected_panel = NoIdx
    /\ pending_widget = <<>>
    /\ dragging_widget = NoIdx
    /\ drag_offset = VecZero
    /\ interacting_widget = NoIdx
    /\ last_mouse_pos = <<>>
    /\ resizing_widget = NoIdx
    /\ resize_start_size = VecZero
    /\ palette_dragging = <<>>
    /\ palette_drag_pos = <<>>
    /\ alignment_guides = <<>>
    /\ drag_hover_panel = NoIdx
    /\ needs_repositioning = TRUE
    /\ primary_down = FALSE
    /\ press_origin = <<>>
    /\ edge_snap = <<>>

NextHidden == \E avail \in Viewports : Frame(avail, MaxHiddenIds)

SpecHidden == InitHidden /\ [][NextHidden]_vars

\* some container on the containment ancestor chain of widget i is collapsed
\* or minimized
AncestorCollapsed(ws, i) ==
    \E c \in DOMAIN ws :
        /\ IsContainerKind(ws[c].wt.kind) /\ ws[c].wt.collapsed
        /\ Reaches(ws, ws[c].id, ws[i].id, Len(ws))

\* C32: is_widget_in_minimized_panel(w) is true exactly when some container
\* on w's containment ancestor chain is collapsed or minimized, a widget is
\* rendered in a frame iff it is false, and the query has a value for every
\* containment graph, one with a cycle included.
C32_HiddenByAncestor ==
    \A i \in DOMAIN widgets :
        /\ is_widget_in_minimized_panel(widgets, widgets[i].id) = AncestorCollapsed(widgets, i)
        /\ widgets_to_render(widgets)[i] = ~AncestorCollapsed(widgets, i)

\* a frame was rendered for a graph with a cycle in which a widget is hidden by
\* a container two steps up its chain and not by its own container
C32_Witness ==
    /\ ~canvas_rect.nothing
    /\ \E i, c \in DOMAIN widgets :
          /\ Reaches(widgets, widgets[c].id, widgets[c].id, Len(widgets))
          /\ ~widgets_to_render(widgets)[i]
          /\ ~InCollapsedContainerOnly(widgets, widgets[i].id)

\* the widgets with every hidden one moved out of reach of the 8 pixel
\* thresholds
Unhidden(ws) ==
    [i \in DOMAIN ws |->
        IF is_widget_in_minimized_panel(ws, ws[i].id)
        THEN [ws[i] EXCEPT !.position = Pos(0 - Px(10000), 0 - Px(10000))]
        ELSE ws[i]]

\* C33: only visible widgets are alignment targets: in a Dragging hold tick of
\* a visible widget, the guides and the written position are those the tick
\* computes when the widgets hidden inside collapsed or minimized containers are
\* out of reach.
C33_HiddenNoTarget ==
    [][(/\ HasIdx(widgets, dragging_widget)
        /\ \E i \in DOMAIN widgets : is_widget_in_minimized_panel(widgets, widgets[i].id)
        /\ ~is_widget_in_minimized_panel(widgets, Dragged.id))
       => \A in \in PanelInputs :
             (DragTick(in) /\ Render(in, MaxPanelIds)) =>
                LET alone == render([Cur EXCEPT !.widgets = Unhidden(widgets)], Viewport,
                                    [pos |-> in.pos, pressed |-> in.b.pressed,
                                     released |-> in.b.released, right |-> in.right,
                                     held |-> in.b.held],
                                    in.close, in.delete)
                IN /\ alignment_guides' = alone.alignment_guides
                   /\ widgets'[dragging_widget + 1].position
                         = alone.widgets[dragging_widget + 1].position]_vars

\* C34: after a primary press at a canvas point (x > 220) with no pending
\* widget, selected_panel is the id of the topmost expanded Panel or Settings
\* panel whose rectangle contains the pointer, whatever lies above it there,
\* and None when there is none; a press at x <= 220 leaves selected_panel as it
\* was.
C34_PressSelects ==
    [][\A in \in DropInputs :
          (/\ in.b.pressed /\ in.pos # <<>> /\ pending_widget = <<>>
           /\ Render(in, MaxDropIds))
          => LET before == Laid(Cur, Viewport).widgets
                 p == in.pos[1]
                 hit == {i \in DOMAIN before :
                            /\ IsContainerKind(before[i].wt.kind)
                            /\ ~before[i].wt.collapsed
                            /\ RectContains(get_rect(before[i]), p)}
             IN IF p.x > Px(220)
                THEN selected_panel' = IF hit = {} THEN NoIdx
                                       ELSE before[CHOOSE i \in hit : \A j \in hit : i >= j].id
                ELSE selected_panel' = selected_panel]_vars

\* the press selected an expanded Panel that lies under a widget or under a
\* collapsed Panel at the pointer
C34_Witness ==
    /\ primary_down /\ press_origin # <<>> /\ selected_panel # NoIdx
    /\ \E i, j \in DOMAIN widgets :
          /\ i < j /\ widgets[i].id = selected_panel
          /\ RectContains(get_rect(widgets[i]), press_origin[1])
          /\ RectContains(get_rect(widgets[j]), press_origin[1])
          /\ ~is_panel_accepting_widgets(widgets[j])

\* a primary press at a canvas point while a palette selection waits
PendingPress(in) ==
    /\ in.b.pressed /\ in.pos # <<>> /\ in.pos[1].x > Px(220)
    /\ pending_widget # <<>>
    /\ ~in.delete

\* C35: a primary press at a canvas point (x > 220) while pending_widget is
\* set creates exactly one widget of the pending kind, clears pending_widget
\* and starts no session in that tick: dragging_widget, resizing_widget and
\* interacting_widget keep their values, also when the press lands on a widget.
C35_PendingPlaced ==
    [][(pending_widget # <<>> /\ next_id < MaxIds) => \A in \in Inputs :
          (/\ PendingPress(in)
           /\ primary_down' = in.b.held
           /\ Render(in, MaxIds)) =>
             /\ Len(widgets') = Len(widgets) + 1
             /\ widgets'[Len(widgets')].wt.kind = pending_widget[1].kind
             /\ widgets'[Len(widgets')].id = next_id
             /\ next_id' = next_id + 1
             /\ pending_widget' = <<>>
             /\ dragging_widget' = dragging_widget
             /\ resizing_widget' = resizing_widget
             /\ interacting_widget' = interacting_widget]_vars

\* a pending widget was placed by a press that landed on an existing widget,
\* and no session began
C35_Witness ==
    /\ primary_down /\ press_origin # <<>> /\ pending_widget = <<>>
    /\ ActiveSessions = 0
    /\ Len(widgets) >= 2
    /\ widgets[Len(widgets)].id = next_id - 1
    /\ \E i \in DOMAIN widgets :
          i < Len(widgets) /\ RectContains(get_rect(widgets[i]), press_origin[1])

----------------------------------------------------------------------------
(* Grid placement in small viewports.                                      *)

\* Widgets spawned by add_widget while the window is the 800 x 660 one or a
\* window that leaves a canvas of 200 x 120 pixels.
MaxGridIds == 3
GridTypes == {PaletteType("ToggleSwitch"), PaletteType("VuMeter"), PaletteType("Knob")}
ShortViewport == RectMinMax(Px(240), Px(40), Px(440), Px(220))
GridViewports == {Viewport, ShortViewport}

NextGrid ==
    \/ \E wt \in GridTypes : AddWidget(wt, MaxGridIds)
    \/ \E avail \in GridViewports : Frame(avail, MaxGridIds)

SpecGrid == Init /\ [][NextGrid]_vars

\* the viewport minus CANVAS_MARGIN on each side
UsableArea(canvas) ==
    RectMinMax(canvas.minx + CANVAS_MARGIN, canvas.miny + CANVAS_MARGIN,
               canvas.maxx - CANVAS_MARGIN, canvas.maxy - CANVAS_MARGIN)

\* C36: for a known viewport whose usable area (the viewport minus
\* CANVAS_MARGIN on each side) is at least as large as the widget, the position
\* calculate_grid_position gives a spawned widget keeps its rectangle inside the
\* usable area, for every grid index.
C36_GridInsideUsable ==
    [][(next_id' = next_id + 1 /\ ~canvas_rect.nothing) =>
          LET new == widgets'[Len(widgets')]
              usable == UsableArea(canvas_rect)
          IN (/\ new.size.x <= usable.maxx - usable.minx
              /\ new.size.y <= usable.maxy - usable.miny)
             => RectContainsRect(usable, get_rect(new))]_vars

\* C37: in every reachable state the ids of the widgets list are pairwise
\* distinct, strictly increasing along the list and all smaller than next_id,
\* after any sequence of spawns, deletions and clear_canvas.
C37_IdsIncreasing ==
    /\ \A i \in DOMAIN widgets : widgets[i].id >= 0 /\ widgets[i].id < next_id
    /\ \A i, j \in DOMAIN widgets : i < j => widgets[i].id < widgets[j].id

\* a widget spawned after a deletion or clear_canvas: the list no longer
\* starts at id 0
C37_Witness ==
    /\ widgets # <<>> /\ widgets[1].id > 0
    /\ next_id = MaxIds

----------------------------------------------------------------------------
(* Dragging containers.                                                    *)

\* A Panel spawned by add_widget, a ToggleSwitch placed into it or beside it
\* from the palette; the Panel is dragged by its title bar to a fixed point and
\* to the far corner of the canvas.
MaxMoveIds == 2
MovePositions(ws) ==
    FixedPositions \cup {CornerPoint} \cup {TitlePoint(ws[i]) : i \in Panels(ws)}

MoveInputs ==
    {in \in [b : ButtonInputs(primary_down),
             pos : {<<>>} \cup {<<p>> : p \in MovePositions(Laid(Cur, Viewport).widgets)},
             right : {FALSE}, close : {FALSE}, delete : {FALSE}] :
        in.b.pressed => (in.pos # <<>> /\ PressPoint(Laid(Cur, Viewport), in.pos[1]))}

NextMove ==
    \/ \E k \in {"ToggleSwitch"} : PaletteSelect(k)
    \/ \E k \in {"Panel"} : AddWidget(PaletteType(k), MaxMoveIds)
    \/ \E in \in MoveInputs : Render(in, MaxMoveIds)

SpecMove == Init /\ [][NextMove]_vars

\* C38: a Dragging hold tick changes the position of the dragged widget only:
\* the widgets a dragged container lists keep their positions, every other
\* widget keeps its position and size, and every contained_widgets list is as
\* it was.
C38_DragMovesOneWidget ==
    [][HasIdx(widgets, dragging_widget) => \A in \in MoveInputs :
          (DragTick(in) /\ primary_down' /\ Render(in, MaxMoveIds)) =>
             /\ Len(widgets') = Len(widgets)
             /\ \A i \in DOMAIN widgets :
                   IF i = dragging_widget + 1
                   THEN widgets'[i] = [widgets[i] EXCEPT !.position = widgets'[i].position]
                   ELSE widgets'[i] = widgets[i]]_vars

\* a Panel is being dragged and a widget it lists has stayed behind, outside
\* the Panel's rectangle
C38_Witness ==
    /\ HasIdx(widgets, dragging_widget) /\ primary_down
    /\ IsContainerKind(Dragged.wt.kind)
    /\ \E i \in DOMAIN widgets :
          /\ SeqContains(Dragged.wt.contained, widgets[i].id)
          /\ ~RectContainsRect(get_rect(Dragged), get_rect(widgets[i]))

----------------------------------------------------------------------------
(* Widgets spawned before the first frame.                                 *)

\* the widgets that the add_widget calls which made ws[1..k] give when the
\* viewport crect is already known
RECURSIVE SpawnedInKnownViewport(_, _, _)
SpawnedInKnownViewport(crect, ws, k) ==
    IF k = 0
    THEN [Cur EXCEPT !.widgets = <<>>, !.canvas_rect = crect,
                     !.needs_repositioning = FALSE,
                     !.next_id = IF ws = <<>> THEN next_id ELSE ws[1].id]
    ELSE add_widget(SpawnedInKnownViewport(crect, ws, k - 1), ws[k].wt)

\* C39: widgets added with add_widget before the viewport is known are at the
\* provisional position (50, 50) and needs_repositioning is set; the first
\* frame leaves each of them exactly where the same add_widget calls put it
\* when the viewport is known beforehand, and needs_repositioning is false
\* from the first frame on.
C39_FirstFrameEquivalence ==
    /\ [](IF canvas_rect.nothing
          THEN /\ \A i \in DOMAIN widgets : widgets[i].position = Pos(Px(50), Px(50))
               /\ widgets # <<>> => needs_repositioning
          ELSE ~needs_repositioning)
    /\ [][(canvas_rect.nothing /\ ~canvas_rect'.nothing) =>
             widgets' = SpawnedInKnownViewport(canvas_rect', widgets, Len(widgets)).widgets]_vars

\* the first frame has laid out three widgets spawned before it, in the
\* viewport whose rows hold one widget each: the second is below the first
C39_Witness ==
    /\ Len(widgets) = MaxGridIds
    /\ ~canvas_rect.nothing /\ ~needs_repositioning
    /\ canvas_rect.maxx - canvas_rect.minx = Px(200)
    /\ \A i \in DOMAIN widgets : widgets[i].position # Pos(Px(50), Px(50))
    /\ widgets[1].position.x = widgets[2].position.x
    /\ widgets[1].position.y < widgets[2].position.y

====
